---- MODULE Spec2Model ----
(***************************************************************************)
(* The Mealie MCP adapter: the client session (mealie/client.py), the      *)
(* domain operations mixed into MealieFetcher (mealie/recipe.py, food.py,  *)
(* mealplan.py, shopping_list.py) and the registered tools                 *)
(* (tools/recipe_tools.py, user_tools.py, group_tools.py).                 *)
(*                                                                         *)
(* Python strings are TLA+ strings, so that f-strings are concatenations   *)
(* and "x in s" is a substring test.  Every other Python value is a        *)
(* tagged record PyVal; dicts keep their insertion order.                   *)
(***************************************************************************)
EXTENDS Integers, Sequences, FiniteSets, TLC

VARIABLES session, received, frames, prev, builder

vars == <<session, received, frames, prev, builder>>

---------------------------------------------------------------------------
(* Bounds *)

\* Requests the transport may have been handed before a new call is admitted.
MaxRequests == 3

---------------------------------------------------------------------------
(* Python values *)

PyNone == [type |-> "none", str |-> "", items |-> <<>>]

PyStr(s) == [type |-> "str", str |-> s, items |-> <<>>]

PyInt(n) == [type |-> "int", str |-> ToString(n), items |-> <<>>]

PyBool(b) == [type |-> "bool", str |-> IF b THEN "True" ELSE "False", items |-> <<>>]

\* items: a sequence of PyVal
PyList(items) == [type |-> "list", str |-> "", items |-> items]

\* items: a sequence of [key |-> String, val |-> PyVal], in insertion order
PyDict(items) == [type |-> "dict", str |-> "", items |-> items]

KV(k, v) == [key |-> k, val |-> v]

HasKey(d, k) == d.type = "dict" /\ \E i \in 1..Len(d.items) : d.items[i].key = k

GetKey(d, k) == d.items[CHOOSE i \in 1..Len(d.items) : d.items[i].key = k].val

\* Python truthiness: bool(v)
Truthy(v) ==
  CASE v.type = "none" -> FALSE
    [] v.type = "str"  -> v.str # ""
    [] v.type = "int"  -> v.str # "0"
    [] v.type = "bool" -> v.str = "True"
    [] OTHER           -> Len(v.items) > 0

---------------------------------------------------------------------------
(* Strings *)

Contains(s, sub) ==
  \E i \in 1..(Len(s) - Len(sub) + 1) : SubSeq(s, i, i + Len(sub) - 1) = sub

StartsWith(s, p) == Len(s) >= Len(p) /\ SubSeq(s, 1, Len(p)) = p

EndsWith(s, p) == Len(s) >= Len(p) /\ SubSeq(s, Len(s) - Len(p) + 1, Len(s)) = p

\* json.dumps of one character: quote and backslash are escaped
EscapeChar(c) == IF c = "\"" THEN "\\\"" ELSE IF c = "\\" THEN "\\\\" ELSE c

\* json.dumps of the characters of a string, character by character
RECURSIVE JsonEscape(_)
JsonEscape(s) ==
  IF Len(s) = 0 THEN ""
  ELSE IF Len(s) = 1 THEN EscapeChar(s)
  ELSE LET h == Len(s) \div 2
       IN  JsonEscape(SubSeq(s, 1, h)) \o JsonEscape(SubSeq(s, h + 1, Len(s)))

\* the position of the first backslash of s, 0 if it has none
FirstBackslash(s) ==
  IF \E i \in 1..Len(s) : SubSeq(s, i, i) = "\\"
  THEN CHOOSE i \in 1..Len(s) :
         /\ SubSeq(s, i, i) = "\\"
         /\ \A j \in 1..(i - 1) : SubSeq(s, j, j) # "\\"
  ELSE 0

\* the inverse reading of an escaped run of characters by json.loads: a
\* backslash stands for the character after it
RECURSIVE JsonUnescape(_)
JsonUnescape(s) ==
  LET i == FirstBackslash(s)
  IN  IF i = 0 \/ i = Len(s) THEN s
      ELSE SubSeq(s, 1, i - 1) \o SubSeq(s, i + 1, i + 1)
             \o JsonUnescape(SubSeq(s, i + 2, Len(s)))

\* json.dumps(v)
RECURSIVE JsonDumps(_)
RECURSIVE JsonDumpsItems(_, _, _)
JsonDumps(v) ==
  CASE v.type = "none" -> "null"
    [] v.type = "str"  -> "\"" \o JsonEscape(v.str) \o "\""
    [] v.type = "int"  -> v.str
    [] v.type = "bool" -> IF v.str = "True" THEN "true" ELSE "false"
    [] v.type = "list" -> "[" \o JsonDumpsItems(v.items, FALSE, 1) \o "]"
    [] v.type = "dict" -> "{" \o JsonDumpsItems(v.items, TRUE, 1) \o "}"

JsonDumpsItems(items, keyed, i) ==
  IF i > Len(items) THEN ""
  ELSE (IF i > 1 THEN ", " ELSE "")
       \o (IF keyed
           THEN "\"" \o JsonEscape(items[i].key) \o "\": " \o JsonDumps(items[i].val)
           ELSE JsonDumps(items[i]))
       \o JsonDumpsItems(items, keyed, i + 1)

\* repr(v): how Python shows a value nested in a container
RECURSIVE PyRepr(_)
RECURSIVE PyReprItems(_, _, _)
PyRepr(v) ==
  CASE v.type = "none" -> "None"
    [] v.type = "str"  -> "'" \o v.str \o "'"
    [] v.type = "int"  -> v.str
    [] v.type = "bool" -> v.str
    [] v.type = "list" -> "[" \o PyReprItems(v.items, FALSE, 1) \o "]"
    [] v.type = "dict" -> "{" \o PyReprItems(v.items, TRUE, 1) \o "}"

PyReprItems(items, keyed, i) ==
  IF i > Len(items) THEN ""
  ELSE (IF i > 1 THEN ", " ELSE "")
       \o (IF keyed
           THEN "'" \o items[i].key \o "': " \o PyRepr(items[i].val)
           ELSE PyRepr(items[i]))
       \o PyReprItems(items, keyed, i + 1)

\* str(v), as an f-string formats a value
PyToStr(v) == IF v.type = "str" THEN v.str ELSE PyRepr(v)

---------------------------------------------------------------------------
(* The backend and the transport (httpx) as seen by the client *)

None == <<>>

Some(v) == <<v>>

\* JSON documents the backend may answer with
JsonBodies ==
  { PyStr("new-recipe"),
    PyDict(<<KV("detail", PyStr("Recipe not found"))>>),
    PyDict(<<KV("slug", PyStr("new-recipe")), KV("name", PyStr("Soup"))>>) }

\* the text of each of them on the wire
JsonText == [j \in JsonBodies |-> JsonDumps(j)]

\* response texts that are not JSON documents
RawBodies == { "new-recipe", "Bad \"gateway\"" }

Bodies == { JsonText[j] : j \in JsonBodies } \cup RawBodies

Statuses == { 200, 201, 404, 500 }

ProbeStatuses == { 200, 401 }

\* what can go wrong below HTTP, by the phase in which it goes wrong
Failures ==
  { "dns", "refused", "reset", "timeout_connect", "timeout_write",
    "timeout_read", "timeout_pool", "unsupported_protocol" }

TimeoutFailures ==
  { "timeout_connect", "timeout_write", "timeout_read", "timeout_pool" }

ConnectionFailures == { "dns", "refused", "reset" }

Answers ==
  [kind : {"response"}, status : Statuses, text : Bodies, failure : {""}]
    \cup [kind : {"failure"}, status : {0}, text : {""}, failure : Failures]

ProbeAnswers ==
  [kind : {"response"}, status : ProbeStatuses, text : {"{}"}, failure : {""}]
    \cup [kind : {"failure"}, status : {0}, text : {""}, failure : Failures]

\* the httpx exception class the transport raises for a failure
HttpxException(failure) ==
  CASE failure = "dns"                  -> "ConnectError"
    [] failure = "refused"              -> "ConnectError"
    [] failure = "reset"                -> "ReadError"
    [] failure = "timeout_connect"      -> "ConnectTimeout"
    [] failure = "timeout_write"        -> "WriteTimeout"
    [] failure = "timeout_read"         -> "ReadTimeout"
    [] failure = "timeout_pool"         -> "PoolTimeout"
    [] failure = "unsupported_protocol" -> "UnsupportedProtocol"

\* str(e) of that exception
HttpxExceptionStr(failure) ==
  CASE failure = "dns"                  -> "[Errno -2] Name or service not known"
    [] failure = "refused"              -> "[Errno 111] Connection refused"
    [] failure = "reset"                -> "[Errno 104] Connection reset by peer"
    [] failure = "timeout_connect"      -> "timed out"
    [] failure = "timeout_write"        -> "timed out"
    [] failure = "timeout_read"         -> "The read operation timed out"
    [] failure = "timeout_pool"         -> "timed out"
    [] failure = "unsupported_protocol" -> "Request URL is missing an 'http://' or 'https://' protocol."

\* response.is_success, which response.raise_for_status() tests
IsSuccess(status) == status >= 200 /\ status <= 299

\* response.json(): the document whose serialisation the text is, if any
IsJson(text) == \E j \in JsonBodies : JsonText[j] = text

ResponseJson(text) == CHOOSE j \in JsonBodies : JsonText[j] = text

---------------------------------------------------------------------------
(* Outcomes of a call: a returned value or a raised exception *)

Returned(v) ==
  [kind |-> "return", exc |-> "", str |-> "", message |-> "", status |-> None,
   response_text |-> None, cause |-> "", value |-> v]

\* an exception of class exc with str(e) = s, raised "from" cause ("" if none)
Raised(exc, s, cause) ==
  [kind |-> "raise", exc |-> exc, str |-> s, message |-> "", status |-> None,
   response_text |-> None, cause |-> cause, value |-> PyNone]

\* a MealieApiError whose str() leaves the status code out
MealieApiErrorNoStatus(status_code, message, response_text) ==
  [kind |-> "raise", exc |-> "MealieApiError", str |-> message,
   message |-> message, status |-> Some(status_code),
   response_text |-> Some(response_text), cause |-> "HTTPStatusError",
   value |-> PyNone]

MealieApiError(status_code, message, response_text) ==
  [kind |-> "raise", exc |-> "MealieApiError",
   str |-> message \o " (Status Code: " \o ToString(status_code) \o ")",
   message |-> message, status |-> Some(status_code),
   response_text |-> Some(response_text), cause |-> "HTTPStatusError",
   value |-> PyNone]

---------------------------------------------------------------------------
(* MealieClient._handle_request *)

\* error_detail of the except HTTPStatusError branch
ErrorDetail(text) ==
  IF IsJson(text) THEN PyToStr(ResponseJson(text)) ELSE text

\* the except HTTPStatusError branch
ApiErrorOutcome(method, url, status, text) ==
  MealieApiError(status,
    "API error for " \o method \o " " \o url \o ": " \o ErrorDetail(text),
    text)

\* a success branch that returns response.json() unguarded
SuccessOutcomeJsonOnly(text) ==
  IF IsJson(text) THEN Returned(ResponseJson(text))
  ELSE Raised("JSONDecodeError", "Expecting value: line 1 column 1 (char 0)", "")

\* after raise_for_status() passed: response.json(), or response.text when
\* the body does not decode
SuccessOutcome(text) ==
  IF IsJson(text) THEN Returned(ResponseJson(text)) ELSE Returned(PyStr(text))

\* the except ReadTimeout / except ConnectError / except Exception branches
TransportOutcome(method, url, failure) ==
  LET e == HttpxException(failure)
      s == HttpxExceptionStr(failure)
  IN  CASE e = "ReadTimeout" ->
             Raised("TimeoutError",
                    "Request timeout for " \o method \o " " \o url, "")
        [] e = "ConnectError" ->
             Raised("ConnectionError",
                    "Connection error for " \o method \o " " \o url
                      \o ": " \o s, e)
        [] OTHER -> Raised(e, s, "")

\* the outcome of _handle_request(method, url, **kwargs) once the transport
\* has answered the request it was handed
HandleRequest(method, url, answer) ==
  IF answer.kind = "response"
  THEN IF IsSuccess(answer.status)
       THEN SuccessOutcome(answer.text)
       ELSE ApiErrorOutcome(method, url, answer.status, answer.text)
  ELSE TransportOutcome(method, url, answer.failure)

\* a dispatch that sends the request again when the transport failed
SendsPerDispatchRetry(answer) == IF answer.kind = "failure" THEN 2 ELSE 1

\* how many times one _handle_request hands its request to the transport
SendsPerDispatch(answer) == 1

\* a request as handed to self._client.request(method, url, **kwargs)
Request(method, url, params, json) ==
  [method |-> method, url |-> url, params |-> params, json |-> json]

---------------------------------------------------------------------------
(* Calls: keyword arguments, and what a call does next *)

\* the next thing a call does: hand a request to _handle_request, or end
Send(req) == [act |-> "send", req |-> req, result |-> Returned(PyNone)]

Finish(result) ==
  [act |-> "finish", req |-> Request("", "", None, None), result |-> result]

Required(name) == [name |-> name, required |-> TRUE, default |-> PyNone]

Optional(name, default) == [name |-> name, required |-> FALSE, default |-> default]

\* all keyword-argument dicts over a sequence of [key, vals, omit]: each key
\* takes a value of vals, or is left out when omit
RECURSIVE KwargsFrom(_, _)
KwargsFrom(choices, i) ==
  IF i > Len(choices) THEN { <<>> }
  ELSE LET rest == KwargsFrom(choices, i + 1)
           c    == choices[i]
       IN  { <<KV(c.key, v)>> \o r : v \in c.vals, r \in rest }
             \cup (IF c.omit THEN rest ELSE {})

Kwargs(choices) == { PyDict(items) : items \in KwargsFrom(choices, 1) }

Choice(key, vals, omit) == [key |-> key, vals |-> vals, omit |-> omit]

---------------------------------------------------------------------------
(* utils.py *)

\* ",".join(v) for a list of strings
RECURSIVE Join(_, _)
Join(items, i) ==
  IF i > Len(items) THEN ""
  ELSE (IF i > 1 THEN "," ELSE "") \o items[i].str \o Join(items, i + 1)

\* format_api_params(params): None values dropped, lists joined
RECURSIVE FormatItems(_, _)
FormatItems(items, i) ==
  IF i > Len(items) THEN <<>>
  ELSE LET v == items[i].val
       IN  (CASE v.type = "none" -> <<>>
              [] v.type = "list" -> <<KV(items[i].key, PyStr(Join(v.items, 1)))>>
              [] OTHER           -> <<items[i]>>)
           \o FormatItems(items, i + 1)

\* a formatter that hands the mapping on as it is
format_api_params_identity(params) == params

format_api_params(params) == PyDict(FormatItems(params.items, 1))

\* format_error_response(error_message)
format_error_response(error_message) ==
  JsonDumps(PyDict(<<KV("success", PyBool(FALSE)),
                     KV("error", PyStr(error_message))>>))

---------------------------------------------------------------------------
(* The domain operations of MealieFetcher *)

ClientOps ==
  { "get_recipes", "get_recipe", "update_recipe", "create_recipe",
    "get_food", "create_food", "update_food",
    "get_mealplan", "create_mealplan", "update_mealplan",
    "get_mealplan_rule", "create_mealplan_rule", "update_mealplan_rule",
    "get_shopping_list", "create_shopping_list", "create_shopping_list_item",
    "delete_shopping_list_item", "get_shopping_list_item",
    "toggle_shopping_list_item" }

\* the parameters of each operation, after self
Signature(op) ==
  CASE op = "get_recipes" ->
         << Optional("search", PyNone), Optional("order_by", PyNone),
            Optional("order_by_null_position", PyNone),
            Optional("order_direction", PyStr("desc")),
            Optional("query_filter", PyNone), Optional("pagination_seed", PyNone),
            Optional("page", PyNone), Optional("per_page", PyNone),
            Optional("categories", PyNone), Optional("tags", PyNone),
            Optional("tools", PyNone) >>
    [] op = "get_recipe"    -> << Required("slug") >>
    [] op = "update_recipe" -> << Required("slug"), Required("recipe_data") >>
    [] op = "create_recipe" -> << Required("name") >>
    [] op = "get_food"      -> << Required("food_id") >>
    [] op = "create_food"   -> << Required("food_data") >>
    [] op = "update_food"   -> << Required("food_id"), Required("food_data") >>
    [] op = "get_mealplan"    -> << Required("item_id") >>
    [] op = "create_mealplan" -> << Required("mealplan_data") >>
    [] op = "update_mealplan" -> << Required("item_id"), Required("mealplan_data") >>
    [] op = "get_mealplan_rule"    -> << Required("rule_id") >>
    [] op = "create_mealplan_rule" -> << Required("rule_data") >>
    [] op = "update_mealplan_rule" -> << Required("rule_id"), Required("rule_data") >>
    [] op = "get_shopping_list"    -> << Required("list_id") >>
    [] op = "create_shopping_list" ->
         << Required("name"), Optional("description", PyNone) >>
    [] op = "create_shopping_list_item" ->
         << Required("list_id"), Required("item_name"),
            Optional("quantity", PyNone), Optional("unit", PyNone),
            Optional("note", PyNone), Optional("food_id", PyNone) >>
    [] op = "delete_shopping_list_item" -> << Required("item_id") >>
    [] op = "get_shopping_list_item"    -> << Required("item_id") >>
    [] op = "toggle_shopping_list_item" -> << Required("item_id") >>

\* Python's binding of the call's keyword arguments to the parameters
MissingArgs(op, kw) ==
  { i \in 1..Len(Signature(op)) :
      Signature(op)[i].required /\ ~HasKey(kw, Signature(op)[i].name) }

ArgOf(sig, kw, name) ==
  IF HasKey(kw, name) THEN GetKey(kw, name)
  ELSE sig[CHOOSE j \in 1..Len(sig) : sig[j].name = name].default

Arg(op, kw, name) == ArgOf(Signature(op), kw, name)

MissingArgError(op, kw) ==
  LET i == CHOOSE j \in MissingArgs(op, kw) : \A k \in MissingArgs(op, kw) : j <= k
  IN  Raised("TypeError",
             op \o "() missing required argument: '" \o Signature(op)[i].name \o "'",
             "")

ValueError(msg) == Raised("ValueError", msg, "")

\* payload[key] = value if value (a truthiness test)
WithOptionalTruthy(items, key, value) ==
  IF Truthy(value) THEN Append(items, KV(key, value)) ELSE items

\* payload[key] = value if value is not None
WithOptional(items, key, value) ==
  IF value.type # "none" THEN Append(items, KV(key, value)) ELSE items

\* the body of each operation, up to its call of _handle_request
RecipeBody(op, kw) ==
  LET slug == Arg(op, kw, "slug") IN
  CASE op = "get_recipes" ->
         Send(Request("GET", "/api/recipes",
                Some(format_api_params(PyDict(
                  <<KV("search", Arg(op, kw, "search")),
                    KV("orderBy", Arg(op, kw, "order_by")),
                    KV("orderByNullPosition", Arg(op, kw, "order_by_null_position")),
                    KV("orderDirection", Arg(op, kw, "order_direction")),
                    KV("queryFilter", Arg(op, kw, "query_filter")),
                    KV("paginationSeed", Arg(op, kw, "pagination_seed")),
                    KV("page", Arg(op, kw, "page")),
                    KV("perPage", Arg(op, kw, "per_page")),
                    KV("categories", Arg(op, kw, "categories")),
                    KV("tags", Arg(op, kw, "tags")),
                    KV("tools", Arg(op, kw, "tools"))>>))),
                None))
    [] op = "get_recipe" ->
         IF ~Truthy(slug) THEN Finish(ValueError("Recipe slug cannot be empty"))
         ELSE Send(Request("GET", "/api/recipes/" \o PyToStr(slug), None, None))
    [] op = "update_recipe" ->
         IF ~Truthy(slug) THEN Finish(ValueError("Recipe slug cannot be empty"))
         ELSE IF ~Truthy(Arg(op, kw, "recipe_data"))
              THEN Finish(ValueError("Recipe data cannot be empty"))
              ELSE Send(Request("PUT", "/api/recipes/" \o PyToStr(slug), None,
                                Some(Arg(op, kw, "recipe_data"))))
    [] op = "create_recipe" ->
         Send(Request("POST", "/api/recipes", None,
                      Some(PyDict(<<KV("name", Arg(op, kw, "name"))>>))))

FoodBody(op, kw) ==
  CASE op = "get_food" ->
         Send(Request("GET", "/api/foods/" \o PyToStr(Arg(op, kw, "food_id")),
                      None, None))
    [] op = "create_food" ->
         IF Arg(op, kw, "food_data").type # "dict"
         THEN Finish(Raised("AttributeError",
                "'NoneType' object has no attribute 'get'", ""))
         ELSE Send(Request("POST", "/api/foods", None,
                           Some(Arg(op, kw, "food_data"))))
    [] op = "update_food" ->
         Send(Request("PUT", "/api/foods/" \o PyToStr(Arg(op, kw, "food_id")),
                      None, Some(Arg(op, kw, "food_data"))))

MealplanBody(op, kw) ==
  CASE op = "get_mealplan" ->
         Send(Request("GET",
                "/api/households/mealplans/" \o PyToStr(Arg(op, kw, "item_id")),
                None, None))
    [] op = "create_mealplan" ->
         Send(Request("POST", "/api/households/mealplans", None,
                      Some(Arg(op, kw, "mealplan_data"))))
    [] op = "update_mealplan" ->
         Send(Request("PUT",
                "/api/households/mealplans/" \o PyToStr(Arg(op, kw, "item_id")),
                None, Some(Arg(op, kw, "mealplan_data"))))
    [] op = "get_mealplan_rule" ->
         Send(Request("GET",
                "/api/households/mealplans/rules/" \o PyToStr(Arg(op, kw, "rule_id")),
                None, None))
    [] op = "create_mealplan_rule" ->
         Send(Request("POST", "/api/households/mealplans/rules", None,
                      Some(Arg(op, kw, "rule_data"))))
    [] op = "update_mealplan_rule" ->
         Send(Request("PUT",
                "/api/households/mealplans/rules/" \o PyToStr(Arg(op, kw, "rule_id")),
                None, Some(Arg(op, kw, "rule_data"))))

ShoppingListBody(op, kw) ==
  CASE op = "get_shopping_list" ->
         IF ~Truthy(Arg(op, kw, "list_id"))
         THEN Finish(ValueError("Shopping list ID cannot be empty"))
         ELSE Send(Request("GET",
                "/api/households/shopping/lists/" \o PyToStr(Arg(op, kw, "list_id")),
                None, None))
    [] op = "create_shopping_list" ->
         IF ~Truthy(Arg(op, kw, "name"))
         THEN Finish(ValueError("Shopping list name cannot be empty"))
         ELSE Send(Request("POST", "/api/households/shopping/lists", None,
                Some(PyDict(WithOptional(<<KV("name", Arg(op, kw, "name"))>>,
                       "description", Arg(op, kw, "description"))))))
    [] op = "create_shopping_list_item" ->
         IF ~Truthy(Arg(op, kw, "list_id"))
         THEN Finish(ValueError("Shopping list ID cannot be empty"))
         ELSE IF ~Truthy(Arg(op, kw, "item_name"))
              THEN Finish(ValueError("Item name cannot be empty"))
              ELSE Send(Request("POST", "/api/shopping/items", None,
                     Some(PyDict(
                       WithOptional(WithOptional(WithOptional(WithOptional(
                         <<KV("shoppingListId", Arg(op, kw, "list_id")),
                           KV("display", Arg(op, kw, "item_name"))>>,
                         "quantity", Arg(op, kw, "quantity")),
                         "unit", Arg(op, kw, "unit")),
                         "note", Arg(op, kw, "note")),
                         "foodId", Arg(op, kw, "food_id"))))))
    [] op \in { "delete_shopping_list_item", "get_shopping_list_item",
                "toggle_shopping_list_item" } ->
         IF ~Truthy(Arg(op, kw, "item_id"))
         THEN Finish(ValueError("Shopping list item ID cannot be empty"))
         ELSE Send(Request(
                IF op = "delete_shopping_list_item" THEN "DELETE"
                ELSE IF op = "get_shopping_list_item" THEN "GET" ELSE "PUT",
                "/api/shopping/items/" \o PyToStr(Arg(op, kw, "item_id"))
                  \o (IF op = "toggle_shopping_list_item" THEN "/toggle" ELSE ""),
                None, None))

\* a call of operation op with keyword arguments kw, up to its first request
ClientCall(op, kw) ==
  IF MissingArgs(op, kw) # {} THEN Finish(MissingArgError(op, kw))
  ELSE CASE op \in { "get_recipes", "get_recipe", "update_recipe", "create_recipe" } ->
              RecipeBody(op, kw)
         [] op \in { "get_food", "create_food", "update_food" } ->
              FoodBody(op, kw)
         [] op \in { "get_mealplan", "create_mealplan", "update_mealplan",
                     "get_mealplan_rule", "create_mealplan_rule",
                     "update_mealplan_rule" } ->
              MealplanBody(op, kw)
         [] OTHER -> ShoppingListBody(op, kw)

\* argument values the model calls the operations with
IdArgs == { PyStr(""), PyStr("abc") }

DataArgs == { PyDict(<<>>), PyDict(<<KV("name", PyStr("Soup"))>>) }

NameArgs == { PyStr(""), PyStr("Soup") }

ClientArgs(op) ==
  CASE op = "get_recipes" ->
         Kwargs(<<Choice("search", {PyStr("chicken")}, TRUE),
                  Choice("order_direction", {PyNone}, TRUE),
                  Choice("per_page", {PyInt(20)}, TRUE),
                  Choice("categories",
                         {PyList(<<>>), PyList(<<PyStr("soup"), PyStr("main")>>)},
                         TRUE)>>)
    [] op = "get_recipe" -> Kwargs(<<Choice("slug", IdArgs \cup {PyNone}, TRUE)>>)
    [] op = "update_recipe" ->
         Kwargs(<<Choice("slug", IdArgs, FALSE), Choice("recipe_data", DataArgs, FALSE)>>)
    [] op = "create_recipe" -> Kwargs(<<Choice("name", NameArgs, FALSE)>>)
    [] op = "get_food" -> Kwargs(<<Choice("food_id", IdArgs, FALSE)>>)
    [] op = "create_food" ->
         Kwargs(<<Choice("food_data", DataArgs \cup {PyNone}, FALSE)>>)
    [] op = "update_food" ->
         Kwargs(<<Choice("food_id", IdArgs, FALSE), Choice("food_data", DataArgs, FALSE)>>)
    [] op = "get_mealplan" -> Kwargs(<<Choice("item_id", IdArgs, FALSE)>>)
    [] op = "create_mealplan" -> Kwargs(<<Choice("mealplan_data", DataArgs, FALSE)>>)
    [] op = "update_mealplan" ->
         Kwargs(<<Choice("item_id", IdArgs, FALSE), Choice("mealplan_data", DataArgs, FALSE)>>)
    [] op = "get_mealplan_rule" -> Kwargs(<<Choice("rule_id", IdArgs, FALSE)>>)
    [] op = "create_mealplan_rule" -> Kwargs(<<Choice("rule_data", DataArgs, FALSE)>>)
    [] op = "update_mealplan_rule" ->
         Kwargs(<<Choice("rule_id", IdArgs, FALSE), Choice("rule_data", DataArgs, FALSE)>>)
    [] op = "get_shopping_list" -> Kwargs(<<Choice("list_id", IdArgs, FALSE)>>)
    [] op = "create_shopping_list" ->
         Kwargs(<<Choice("name", NameArgs, FALSE),
                  Choice("description", {PyNone, PyStr("")}, TRUE)>>)
    [] op = "create_shopping_list_item" ->
         Kwargs(<<Choice("list_id", IdArgs, FALSE),
                  Choice("item_name", NameArgs, FALSE),
                  Choice("quantity", {PyInt(0)}, TRUE),
                  Choice("note", {PyNone}, TRUE)>>)
    [] OTHER -> Kwargs(<<Choice("item_id", IdArgs, FALSE)>>)

---------------------------------------------------------------------------
(* models/recipe.py: the pydantic models of a recipe payload *)

\* a declared field: its annotation (type, nested model, Optional or not),
\* whether it has no default (required), and its default
Field(name, type, model, nullable, required, default) ==
  [name |-> name, type |-> type, model |-> model, nullable |-> nullable,
   required |-> required, default |-> default]

OptStr(name) == Field(name, "str", "", TRUE, FALSE, PyNone)

ReqStr(name) == Field(name, "str", "", FALSE, TRUE, PyNone)

OptFloat(name) == Field(name, "float", "", TRUE, FALSE, PyNone)

OptBool(name, default) == Field(name, "bool", "", TRUE, FALSE, PyBool(default))

EmptyList(name, type, model) == Field(name, type, model, FALSE, FALSE, PyList(<<>>))

Schema(model) ==
  CASE model = "RecipeNutrition" ->
         << OptStr("calories"), OptStr("carbohydrateContent"),
            OptStr("cholesterolContent"), OptStr("fatContent"),
            OptStr("fiberContent"), OptStr("proteinContent"),
            OptStr("saturatedFatContent"), OptStr("sodiumContent"),
            OptStr("sugarContent"), OptStr("transFatContent"),
            OptStr("unsaturatedFatContent") >>
    [] model = "RecipeIngredient" ->
         << OptFloat("quantity"), OptStr("unit"), OptStr("food"), ReqStr("note"),
            Field("isFood", "bool", "", FALSE, FALSE, PyBool(FALSE)),
            Field("disableAmount", "bool", "", FALSE, FALSE, PyBool(TRUE)),
            OptStr("display"), OptStr("title"), OptStr("originalText"),
            ReqStr("referenceId") >>
    [] model = "RecipeInstruction" ->
         << OptStr("id"),
            Field("title", "str", "", FALSE, FALSE, PyStr("")),
            Field("summary", "str", "", FALSE, FALSE, PyStr("")),
            ReqStr("text"),
            EmptyList("ingredientReferences", "list_str", "") >>
    [] model = "RecipeSettings" ->
         << OptBool("public", FALSE), OptBool("showNutrition", FALSE),
            OptBool("showAssets", FALSE), OptBool("landscapeView", FALSE),
            OptBool("disableComments", FALSE), OptBool("disableAmount", FALSE),
            OptBool("locked", FALSE) >>
    [] model = "RecipeData" ->
         << OptStr("id"), ReqStr("userId"), ReqStr("householdId"),
            ReqStr("groupId"), ReqStr("name"), OptStr("slug"), OptStr("image"),
            OptStr("description"), OptFloat("recipeServings"),
            OptFloat("recipeYieldQuantity"), OptStr("recipeYield"),
            OptStr("totalTime"), OptStr("prepTime"), OptStr("cookTime"),
            OptStr("performTime"),
            EmptyList("recipeCategory", "list_str", ""),
            EmptyList("tags", "list_str", ""),
            EmptyList("tools", "list_str", ""),
            Field("rating", "int", "", TRUE, FALSE, PyNone),
            OptStr("orgURL"), OptStr("dateAdded"), OptStr("dateUpdated"),
            OptStr("createdAt"), OptStr("updatedAt"), OptStr("lastMade"),
            Field("nutrition", "model", "RecipeNutrition", TRUE, FALSE, PyNone),
            EmptyList("recipeIngredient", "list_model", "RecipeIngredient"),
            EmptyList("recipeInstructions", "list_model", "RecipeInstruction"),
            Field("settings", "model", "RecipeSettings", TRUE, FALSE, PyNone),
            EmptyList("assets", "list", ""),
            EmptyList("notes", "list", ""),
            Field("extras", "dict", "", FALSE, FALSE, PyDict(<<>>)),
            EmptyList("comments", "list", "") >>

\* model_config = ConfigDict(extra="allow") is set on RecipeData only
ExtraAllowed(model) == model = "RecipeData"

Declared(model, key) == \E i \in 1..Len(Schema(model)) : Schema(model)[i].name = key

\* the number of validation errors Model built from d reports (0: the model is built);
\* values are taken as given, pydantic's coercions of one scalar type into
\* another are not modelled
RECURSIVE ModelErrors(_, _, _)
RECURSIVE ValueErrors(_, _)
RECURSIVE ItemErrors(_, _, _)
ValueErrors(f, v) ==
  CASE v.type = "none"        -> IF f.nullable THEN 0 ELSE 1
    [] f.type = "str"         -> IF v.type = "str" THEN 0 ELSE 1
    [] f.type = "float"       -> IF v.type = "int" THEN 0 ELSE 1
    [] f.type = "int"         -> IF v.type = "int" THEN 0 ELSE 1
    [] f.type = "bool"        -> IF v.type = "bool" THEN 0 ELSE 1
    [] f.type = "dict"        -> IF v.type = "dict" THEN 0 ELSE 1
    [] f.type = "list"        -> IF v.type = "list" THEN 0 ELSE 1
    [] f.type = "list_str"    -> IF v.type = "list" THEN ItemErrors(f, v.items, 1) ELSE 1
    [] f.type = "list_model"  -> IF v.type = "list" THEN ItemErrors(f, v.items, 1) ELSE 1
    [] f.type = "model"       -> IF v.type = "dict" THEN ModelErrors(f.model, v, 1) ELSE 1

ItemErrors(f, items, i) ==
  IF i > Len(items) THEN 0
  ELSE (IF f.type = "list_str"
        THEN (IF items[i].type = "str" THEN 0 ELSE 1)
        ELSE (IF items[i].type = "dict" THEN ModelErrors(f.model, items[i], 1) ELSE 1))
       + ItemErrors(f, items, i + 1)

ModelErrors(model, d, i) ==
  IF i > Len(Schema(model)) THEN 0
  ELSE LET f == Schema(model)[i]
       IN  (IF HasKey(d, f.name) THEN ValueErrors(f, GetKey(d, f.name))
            ELSE IF f.required THEN 1 ELSE 0)
           + ModelErrors(model, d, i + 1)

\* str() of the pydantic ValidationError, first line
ValidationErrorStr(model, d) ==
  ToString(ModelErrors(model, d, 1)) \o " validation errors for " \o model

\* model_dump(exclude_none=True) of the Model built of a valid d: the declared fields
\* in declaration order, given or defaulted, then the extra keys, None dropped
RECURSIVE DumpFields(_, _, _)
RECURSIVE DumpValue(_, _)
RECURSIVE DumpItems(_, _, _)
RECURSIVE DumpExtras(_, _, _)
DumpValue(f, v) ==
  CASE v.type = "none"       -> v
    [] f.type = "model"      -> PyDict(DumpFields(f.model, v, 1))
    [] f.type = "list_model" -> PyList(DumpItems(f, v.items, 1))
    [] OTHER                 -> v

DumpItems(f, items, i) ==
  IF i > Len(items) THEN <<>>
  ELSE <<PyDict(DumpFields(f.model, items[i], 1))>> \o DumpItems(f, items, i + 1)

DumpExtras(model, d, i) ==
  IF i > Len(d.items) THEN <<>>
  ELSE (IF ~Declared(model, d.items[i].key) /\ d.items[i].val.type # "none"
        THEN <<d.items[i]>> ELSE <<>>)
       \o DumpExtras(model, d, i + 1)

DumpFields(model, d, i) ==
  IF i > Len(Schema(model))
  THEN IF ExtraAllowed(model) THEN DumpExtras(model, d, 1) ELSE <<>>
  ELSE LET f == Schema(model)[i]
           v == IF HasKey(d, f.name) THEN DumpValue(f, GetKey(d, f.name))
                ELSE f.default
       IN  (IF v.type # "none" THEN <<KV(f.name, v)>> ELSE <<>>)
           \o DumpFields(model, d, i + 1)

ModelDump(model, d) == PyDict(DumpFields(model, d, 1))

---------------------------------------------------------------------------
(* mealie/__init__.py and tools/: the registered tools *)

\* the base classes of MealieFetcher
FetcherBases ==
  { "FoodMixin", "MealplanMixin", "RecipeMixin", "ShoppingListMixin",
    "MealieClient" }

\* the class that defines each method the registered tools call
DefinedIn(method) ==
  CASE method = "get_current_user"  -> "UserMixin"
    [] method = "get_current_group" -> "GroupMixin"
    [] OTHER                        -> "RecipeMixin"

\* the tools register_all_tools registers
RegisteredTools ==
  { "get_recipes", "get_recipe", "update_recipe", "create_recipe",
    "get_current_user", "get_current_group" }

ToolSignature(tool) ==
  CASE tool = "get_recipes" ->
         << Optional("search", PyNone), Optional("page", PyNone),
            Optional("per_page", PyNone), Optional("categories", PyNone),
            Optional("tags", PyNone) >>
    [] tool = "get_recipe"    -> << Required("slug") >>
    [] tool = "update_recipe" -> << Required("slug"), Required("recipe_data") >>
    [] tool = "create_recipe" ->
         << Required("name"), Optional("recipe_data", PyNone) >>
    [] OTHER -> << >>

ToolArg(tool, kw, name) == ArgOf(ToolSignature(tool), kw, name)

\* error_msg of the tool's except clause, up to str(e)
ErrorPrefix(tool, kw) ==
  CASE tool = "get_recipes" -> "Error fetching recipes: "
    [] tool = "get_recipe" ->
         "Error fetching recipe with slug '"
           \o PyToStr(ToolArg(tool, kw, "slug")) \o "': "
    [] tool = "update_recipe" ->
         "Error updating recipe with slug '"
           \o PyToStr(ToolArg(tool, kw, "slug")) \o "': "
    [] tool = "create_recipe" ->
         "Error creating recipe with name '"
           \o PyToStr(ToolArg(tool, kw, "name")) \o "': "
    [] tool = "get_current_user" -> "Error fetching current user information: "
    [] tool = "get_current_group" -> "Error fetching current group information: "

\* an outer clause that catches ValueError only
ToolExceptValueError(prefix, r) ==
  IF r.kind = "raise" /\ r.exc = "ValueError"
  THEN Returned(PyStr(format_error_response(prefix \o r.str)))
  ELSE r

\* the tool's outer "except Exception as e: return format_error_response(...)"
ToolExcept(prefix, r) ==
  IF r.kind = "raise"
  THEN Returned(PyStr(format_error_response(prefix \o r.str)))
  ELSE r

\* the inner "except Exception as validation_error: raise ValueError(...)" of
\* update_recipe and create_recipe
InnerExcept(r) ==
  IF r.kind = "raise"
  THEN ValueError("Invalid recipe data format: " \o r.str)
  ELSE r

\* the inner try block: RecipeData built from recipe_data, model_dump, update_recipe
ValidateAndUpdate(slug, recipe_data) ==
  IF ModelErrors("RecipeData", recipe_data, 1) > 0
  THEN Finish(InnerExcept(Raised("ValidationError",
                ValidationErrorStr("RecipeData", recipe_data), "")))
  ELSE LET c == ClientCall("update_recipe",
                  PyDict(<<KV("slug", slug),
                           KV("recipe_data", ModelDump("RecipeData", recipe_data))>>))
       IN  IF c.act = "finish" THEN Finish(InnerExcept(c.result)) ELSE c

\* what is left of an inner step once the outer except clause has seen it
Enveloped(prefix, c) ==
  IF c.act = "finish" THEN Finish(ToolExcept(prefix, c.result)) ELSE c

\* a call of a tool, up to its first request
ToolCall(tool, kw) ==
  LET prefix == ErrorPrefix(tool, kw) IN
  CASE tool = "get_recipes" ->
         Enveloped(prefix, ClientCall("get_recipes",
           PyDict(<<KV("search", ToolArg(tool, kw, "search")),
                    KV("page", ToolArg(tool, kw, "page")),
                    KV("per_page", ToolArg(tool, kw, "per_page")),
                    KV("categories", ToolArg(tool, kw, "categories")),
                    KV("tags", ToolArg(tool, kw, "tags"))>>)))
    [] tool = "get_recipe" ->
         Enveloped(prefix, ClientCall("get_recipe",
           PyDict(<<KV("slug", ToolArg(tool, kw, "slug"))>>)))
    [] tool = "update_recipe" ->
         Enveloped(prefix, ValidateAndUpdate(ToolArg(tool, kw, "slug"),
                                             ToolArg(tool, kw, "recipe_data")))
    [] tool = "create_recipe" ->
         Enveloped(prefix, ClientCall("create_recipe",
           PyDict(<<KV("name", ToolArg(tool, kw, "name"))>>)))
    [] tool \in { "get_current_user", "get_current_group" } ->
         IF DefinedIn(tool) \in FetcherBases
         THEN Send(Request("GET",
                IF tool = "get_current_user" THEN "/api/users/self"
                ELSE "/api/groups/self", None, None))
         ELSE Finish(ToolExcept(prefix, Raised("AttributeError",
                "'MealieFetcher' object has no attribute '" \o tool \o "'", "")))

\* the tool resumed with the outcome of its step-th request
ToolResume(tool, kw, step, outcome) ==
  LET prefix == ErrorPrefix(tool, kw) IN
  CASE tool = "update_recipe" ->
         Finish(ToolExcept(prefix, InnerExcept(outcome)))
    [] tool = "create_recipe" /\ step = 1 ->
         IF outcome.kind = "raise" THEN Finish(ToolExcept(prefix, outcome))
         ELSE IF ~Truthy(ToolArg(tool, kw, "recipe_data")) THEN Finish(outcome)
         ELSE IF ~Truthy(outcome.value)
              THEN Finish(Returned(PyStr(format_error_response(
                     "Failed to get slug from created recipe"))))
              ELSE Enveloped(prefix,
                     ValidateAndUpdate(outcome.value,
                                       ToolArg(tool, kw, "recipe_data")))
    [] tool = "create_recipe" /\ step = 2 ->
         Finish(ToolExcept(prefix, InnerExcept(outcome)))
    [] OTHER -> Finish(ToolExcept(prefix, outcome))

\* recipe payloads the tools are called with
ValidRecipe ==
  <<KV("userId", PyStr("u1")), KV("householdId", PyStr("h1")),
    KV("groupId", PyStr("g1")), KV("name", PyStr("Soup"))>>

RecipeDatas ==
  { PyDict(<<>>),
    PyDict(<<KV("prepTime", PyStr("15 minutes")),
             KV("cookTime", PyStr("15 minutes"))>>),
    PyDict(ValidRecipe),
    PyDict(ValidRecipe \o <<KV("tags", PyList(<<PyStr("quick")>>)),
                            KV("description", PyNone),
                            KV("source", PyStr("web"))>>),
    PyDict(ValidRecipe \o
           <<KV("recipeIngredient",
                PyList(<<PyDict(<<KV("note", PyStr("2 cups flour"))>>)>>))>>) }

SlugArgs == { PyStr(""), PyStr("abc") }

ToolArgs(tool) ==
  CASE tool = "get_recipes" ->
         Kwargs(<<Choice("search", {PyStr("chicken")}, TRUE),
                  Choice("per_page", {PyInt(20)}, TRUE),
                  Choice("categories", {PyList(<<PyStr("soup"), PyStr("main")>>)},
                         TRUE)>>)
    [] tool = "get_recipe" -> Kwargs(<<Choice("slug", SlugArgs, FALSE)>>)
    [] tool = "update_recipe" ->
         Kwargs(<<Choice("slug", SlugArgs, FALSE),
                  Choice("recipe_data", RecipeDatas, FALSE)>>)
    [] tool = "create_recipe" ->
         Kwargs(<<Choice("name", {PyStr("Soup")}, FALSE),
                  Choice("recipe_data", RecipeDatas, TRUE)>>)
    [] OTHER -> { PyDict(<<>>) }

---------------------------------------------------------------------------
(* MealieClient.__init__ *)

\* timeout=30.0 of the httpx.Client
RequestTimeout == 30

BaseUrls == { "", "http://mealie.local" }

ApiKeys == { "", "secret" }

NoAnswer == [kind |-> "", status |-> 0, text |-> "", failure |-> ""]

\* no MealieFetcher(...) has been attempted yet; base_url and api_key are the
\* arguments of the attempt, answer what the transport did with the probe
NoSession ==
  [state |-> "absent", base_url |-> "", api_key |-> "", timeout |-> 0,
   conn |-> FALSE, probes |-> <<>>, answer |-> NoAnswer,
   error |-> Returned(PyNone)]

\* guards that test the base URL only
ConstructCheckUrlOnly(base_url, api_key) ==
  IF base_url = "" THEN "Base URL cannot be empty" ELSE ""

\* the guards at the head of __init__: the message of the ValueError, or ""
ConstructCheck(base_url, api_key) ==
  IF base_url = "" THEN "Base URL cannot be empty"
  ELSE IF api_key = "" THEN "API key cannot be empty"
  ELSE ""

\* a try block without the except ConnectError clause
ProbeOutcomeUnwrapped(base_url, answer) ==
  IF answer.kind = "response" THEN Returned(PyNone)
  ELSE Raised(HttpxException(answer.failure),
              HttpxExceptionStr(answer.failure), "")

\* the try block of __init__ once the probe has been answered: the except
\* clauses (no raise_for_status() is applied to the probe's response)
ProbeOutcome(base_url, answer) ==
  IF answer.kind = "response" THEN Returned(PyNone)
  ELSE LET e == HttpxException(answer.failure)
           s == HttpxExceptionStr(answer.failure)
       IN  IF e = "ConnectError"
           THEN Raised("ConnectionError",
                  "Failed to connect to Mealie API at " \o base_url \o ": " \o s, e)
           ELSE Raised(e, s, "")

\* the requests __init__ makes on the new connection
ProbeRequests == << Request("GET", "/api/app/about", None, None) >>

\* MealieFetcher(base_url, api_key), the probe being answered by answer
Construct(base_url, api_key, answer) ==
  /\ session.state = "absent"
  /\ LET check == ConstructCheck(base_url, api_key)
         out   == ProbeOutcome(base_url, answer)
     IN  IF check # ""
         THEN /\ session' = [NoSession EXCEPT !.state = "failed",
                                              !.base_url = base_url,
                                              !.api_key = api_key,
                                              !.error = ValueError(check)]
              /\ received' = received
         ELSE /\ session' =
                   [state |-> IF out.kind = "raise" THEN "failed" ELSE "ready",
                    base_url |-> base_url, api_key |-> api_key,
                    timeout |-> RequestTimeout, conn |-> TRUE,
                    probes |-> ProbeRequests, answer |-> answer,
                    error |-> out]
              /\ received' = received + Len(ProbeRequests)
  /\ UNCHANGED <<frames, prev, builder>>

---------------------------------------------------------------------------
(* RecipeMixin.import_recipe_from_url and its tool: the tests call them, the
   source files do not hold them; modelled from the specification *)

ImportUrls == { "", "not-a-url", "https://example.com/recipe" }

\* the prefixes a URL may begin with
UrlSchemes == { "http://", "https://" }

\* the validation of the URL: the message of the ValueError, or ""
ImportCheck(url) ==
  IF url = "" THEN "URL cannot be empty"
  ELSE IF \A p \in UrlSchemes : ~StartsWith(url, p)
       THEN "Invalid URL format: URL must start with http:// or https://"
       ELSE ""

\* what the tool puts before str(e) in its Error Envelope
ImportErrorPrefix(url) == "Error importing recipe from URL '" \o url \o "': "

\* what crosses the boundary of the call: the method raises, the tool returns
\* an Error Envelope
ImportExcept(level, url, r) ==
  IF level = "import_tool" THEN ToolExcept(ImportErrorPrefix(url), r) ELSE r

\* an import that posts whatever it is given
ImportCallUnchecked(level, url) ==
  Send(Request("POST", "/api/recipes/create/url", None,
               Some(PyDict(<<KV("url", PyStr(url))>>))))

\* import_recipe_from_url(url), up to its first request
ImportCall(level, url) ==
  IF ImportCheck(url) # ""
  THEN Finish(ImportExcept(level, url, ValueError(ImportCheck(url))))
  ELSE Send(Request("POST", "/api/recipes/create/url", None,
                    Some(PyDict(<<KV("url", PyStr(url))>>))))

\* an import that fetches the recipe whatever became of the POST
ImportResumeAlways(level, kw, step, outcome) ==
  IF step = 1
  THEN Send(Request("GET", "/api/recipes/" \o PyToStr(outcome.value), None, None))
  ELSE Finish(ImportExcept(level, GetKey(kw, "url").str, outcome))

\* import_recipe_from_url resumed with the outcome of its step-th request:
\* the POST's returned slug is fetched, a failure ends the call
ImportResume(level, kw, step, outcome) ==
  IF step = 1 /\ outcome.kind = "return"
  THEN Send(Request("GET", "/api/recipes/" \o PyToStr(outcome.value), None, None))
  ELSE Finish(ImportExcept(level, GetKey(kw, "url").str, outcome))

---------------------------------------------------------------------------
(* mealie/shopping_list.py: the bulk operations on shopping-list items *)

\* Elements of the lists the bulk operations are called with.
MaxItems == 2

BulkOps ==
  { "bulk_create_shopping_list_items", "bulk_update_shopping_list_items",
    "bulk_delete_shopping_list_items" }

\* a loop that asks for the key only, whatever its value
BulkInvalidMissing(items, field) ==
  \E i \in 1..Len(items.items) : ~HasKey(items.items[i], field)

\* the validation loop: some item.get(field) is falsy
BulkInvalid(items, field) ==
  \E i \in 1..Len(items.items) :
    ~Truthy(IF HasKey(items.items[i], field)
            THEN GetKey(items.items[i], field) ELSE PyNone)

\* item_payload of bulk_create_shopping_list_items
ItemPayload(list_id, item) ==
  PyDict(<<KV("shoppingListId", list_id), KV("display", GetKey(item, "display"))>>
         \o (IF HasKey(item, "quantity")
             THEN <<KV("quantity", GetKey(item, "quantity"))>> ELSE <<>>)
         \o (IF HasKey(item, "unit")
             THEN <<KV("unit", GetKey(item, "unit"))>> ELSE <<>>)
         \o (IF HasKey(item, "note")
             THEN <<KV("note", GetKey(item, "note"))>> ELSE <<>>)
         \o (IF HasKey(item, "foodId")
             THEN <<KV("foodId", GetKey(item, "foodId"))>> ELSE <<>>))

\* a bulk operation called with keyword arguments kw, up to its request
BulkCall(op, kw) ==
  CASE op = "bulk_create_shopping_list_items" ->
         LET list_id == GetKey(kw, "list_id")
             items == GetKey(kw, "items")
         IN  IF ~Truthy(list_id)
             THEN Finish(ValueError("Shopping list ID cannot be empty"))
             ELSE IF ~Truthy(items) \/ items.type # "list"
             THEN Finish(ValueError(
                    "Items must be a non-empty list of item dictionaries"))
             ELSE IF BulkInvalid(items, "display")
             THEN Finish(ValueError("Each item must have a 'display' name"))
             ELSE Send(Request("POST", "/api/shopping/items/bulk", None,
                    Some(PyList([i \in 1..Len(items.items) |->
                                   ItemPayload(list_id, items.items[i])]))))
    [] op = "bulk_update_shopping_list_items" ->
         LET items == GetKey(kw, "items")
         IN  IF ~Truthy(items) \/ items.type # "list"
             THEN Finish(ValueError(
                    "Items must be a non-empty list of item dictionaries"))
             ELSE IF BulkInvalid(items, "id")
             THEN Finish(ValueError("Each item must have an 'id' field"))
             ELSE Send(Request("PUT", "/api/shopping/items/bulk", None,
                               Some(items)))
    [] op = "bulk_delete_shopping_list_items" ->
         LET item_ids == GetKey(kw, "item_ids")
         IN  IF ~Truthy(item_ids) \/ item_ids.type # "list"
             THEN Finish(ValueError("Item IDs must be a non-empty list"))
             ELSE Send(Request("DELETE", "/api/shopping/items/bulk", None,
                               Some(item_ids)))

\* the lists of at most MaxItems elements over a set of elements, and one
\* argument that is no list
BulkLists(elements) ==
  { PyList(s) : s \in UNION { [1..n -> elements] : n \in 0..MaxItems } }
    \cup { PyStr("abc") }

\* the arguments the model calls each bulk operation with
BulkArgs(op) ==
  CASE op = "bulk_create_shopping_list_items" ->
         { PyDict(<<KV("list_id", l), KV("items", i)>>) :
             l \in IdArgs,
             i \in BulkLists({ PyDict(<<KV("display", PyStr("Milk"))>>),
                               PyDict(<<KV("display", PyStr("Eggs")),
                                        KV("quantity", PyInt(2))>>),
                               PyDict(<<KV("display", PyStr(""))>>),
                               PyDict(<<KV("note", PyStr("ripe"))>>) }) }
    [] op = "bulk_update_shopping_list_items" ->
         { PyDict(<<KV("items", i)>>) :
             i \in BulkLists({ PyDict(<<KV("id", PyStr("i1")),
                                        KV("checked", PyBool(TRUE))>>),
                               PyDict(<<KV("id", PyStr("i2"))>>),
                               PyDict(<<KV("id", PyStr(""))>>),
                               PyDict(<<KV("display", PyStr("Milk"))>>) }) }
    [] op = "bulk_delete_shopping_list_items" ->
         { PyDict(<<KV("item_ids", i)>>) :
             i \in BulkLists({ PyStr("i1"), PyStr("i2") }) }

---------------------------------------------------------------------------
(* Calls made by the host on the constructed client *)

\* the host's tasks; Spec runs the calls of one task, one after the other
Tasks == { 1, 2 }

MainTasks == { 1 }

\* a call of a task: where it is (pc), what was called (level, op, kw), how
\* many times it has entered _handle_request (step), the requests it has
\* handed to the transport (reqs), the transport's answers, and its result
IdleFrame ==
  [pc |-> "idle", level |-> "", op |-> "", kw |-> PyDict(<<>>), step |-> 0,
   reqs |-> <<>>, answers |-> <<>>, result |-> Returned(PyNone)]

DispatchMethods == { "GET", "POST" }

DispatchUrls == { "/api/recipes/abc" }

\* an entry check that lets one call run at a time
CanBeginExclusive(t) ==
  /\ session.state = "ready" /\ frames[t].pc = "idle" /\ received < MaxRequests
  /\ \A u \in Tasks : frames[u].pc = "idle"

\* a new call can start on task t
CanBegin(t) ==
  session.state = "ready" /\ frames[t].pc = "idle" /\ received < MaxRequests

\* a call starts: it either ends before any request, or hands its first
\* request to _handle_request, which hands it to the transport
Begin(t, level, op, kw, next) ==
  /\ CanBegin(t)
  /\ frames' = [frames EXCEPT ![t] =
       IF next.act = "send"
       THEN [pc |-> "waiting", level |-> level, op |-> op, kw |-> kw,
             step |-> 1, reqs |-> <<next.req>>, answers |-> <<>>,
             result |-> Returned(PyNone)]
       ELSE [pc |-> "done", level |-> level, op |-> op, kw |-> kw,
             step |-> 0, reqs |-> <<>>, answers |-> <<>>,
             result |-> next.result]]
  /\ received' = received + (IF next.act = "send" THEN 1 ELSE 0)
  /\ UNCHANGED <<session, prev, builder>>

\* self._handle_request(method, url) called directly
InvokeDispatch(t, method, url) ==
  Begin(t, "dispatch", "_handle_request",
        PyDict(<<KV("method", PyStr(method)), KV("url", PyStr(url))>>),
        Send(Request(method, url, None, None)))

\* a domain operation of the client called directly
InvokeClient(t, op, kw) == Begin(t, "client", op, kw, ClientCall(op, kw))

\* a registered tool called by the host
InvokeTool(t, tool, kw) == Begin(t, "tool", tool, kw, ToolCall(tool, kw))

\* a bulk operation of the client called directly
InvokeBulk(t, op, kw) == Begin(t, "client", op, kw, BulkCall(op, kw))

\* import_recipe_from_url(url) called on the client (level "import") or as a
\* tool (level "import_tool")
InvokeImport(t, level, url) ==
  Begin(t, level, "import_recipe_from_url", PyDict(<<KV("url", PyStr(url))>>),
        ImportCall(level, url))

\* the call resumed with the outcome of _handle_request
Resume(level, op, kw, step, outcome) ==
  IF level = "tool" THEN ToolResume(op, kw, step, outcome)
  ELSE IF level \in { "import", "import_tool" }
       THEN ImportResume(level, kw, step, outcome)
       ELSE Finish(outcome)

RECURSIVE Repeat(_, _)
Repeat(req, n) == IF n <= 0 THEN <<>> ELSE <<req>> \o Repeat(req, n - 1)

\* a handler that closes the connection when the transport fails
AnswerClosing(t, answer) ==
  /\ frames[t].pc = "waiting"
  /\ frames' = [frames EXCEPT ![t].pc = "done",
                              ![t].answers = Append(@, answer)]
  /\ session' = [session EXCEPT !.conn = (answer.kind = "response")]
  /\ UNCHANGED <<received, prev, builder>>

\* the transport answers the request a call is waiting on
Answer(t, answer) ==
  /\ frames[t].pc = "waiting"
  /\ LET f     == frames[t]
         req   == f.reqs[Len(f.reqs)]
         again == Repeat(req, SendsPerDispatch(answer) - 1)
         next  == Resume(f.level, f.op, f.kw, f.step,
                         HandleRequest(req.method, req.url, answer))
     IN  /\ frames' = [frames EXCEPT ![t] =
              IF next.act = "send"
              THEN [f EXCEPT !.step = f.step + 1,
                             !.reqs = f.reqs \o again \o <<next.req>>,
                             !.answers = Append(f.answers, answer)]
              ELSE [f EXCEPT !.pc = "done", !.reqs = f.reqs \o again,
                             !.answers = Append(f.answers, answer),
                             !.result = next.result]]
         /\ received' = received + Len(again)
                          + (IF next.act = "send" THEN 1 ELSE 0)
  /\ UNCHANGED <<session, prev, builder>>

\* the caller takes the result; the call is over
Return(t) ==
  /\ frames[t].pc = "done"
  /\ prev' = IF frames[t].level = "dispatch" THEN Some(frames[t].reqs[1]) ELSE prev
  /\ frames' = [frames EXCEPT ![t] = IdleFrame]
  /\ UNCHANGED <<session, received, builder>>

---------------------------------------------------------------------------
(* param_builder.py, and format_api_params called on its own *)

\* Calls of add() and build() made on one builder.
MaxCalls == 4

\* Entries of the mappings format_api_params is called with.
MaxParams == 2

\* an add() that assigns whether or not the key is there
addOverwrite(param_dict, key, value) ==
  IF param_dict.type = "none"
  THEN [param_dict |-> param_dict,
        outcome |-> Raised("TypeError",
                           "argument of type 'NoneType' is not iterable", "")]
  ELSE [param_dict |->
          PyDict(IF HasKey(param_dict, key)
                 THEN [i \in 1..Len(param_dict.items) |->
                         IF param_dict.items[i].key = key THEN KV(key, value)
                         ELSE param_dict.items[i]]
                 ELSE Append(param_dict.items, KV(key, value))),
        outcome |-> Returned(PyNone)]

\* ParamBuilder.add(key, value): the builder's mapping after the call, and
\* the outcome of the call
add(param_dict, key, value) ==
  IF param_dict.type = "none"
  THEN [param_dict |-> param_dict,
        outcome |-> Raised("TypeError",
                           "argument of type 'NoneType' is not iterable", "")]
  ELSE IF HasKey(param_dict, key)
  THEN [param_dict |-> param_dict,
        outcome |-> ValueError("Key '" \o key
                      \o "' already exists in the parameter dictionary.")]
  ELSE [param_dict |-> PyDict(Append(param_dict.items, KV(key, value))),
        outcome |-> Returned(PyNone)]

\* a loop that skips every falsy value, the empty list included
RECURSIVE BuildItemsFalsy(_, _)
BuildItemsFalsy(items, i) ==
  IF i > Len(items) THEN <<>>
  ELSE LET v == items[i].val
       IN  (IF ~Truthy(v) THEN <<>>
            ELSE IF v.type = "list"
            THEN <<KV(items[i].key, PyStr(Join(v.items, 1)))>>
            ELSE <<items[i]>>)
           \o BuildItemsFalsy(items, i + 1)

\* the loop of ParamBuilder.build() over self.param_dict.items()
RECURSIVE BuildItems(_, _)
BuildItems(items, i) ==
  IF i > Len(items) THEN <<>>
  ELSE LET v == items[i].val
       IN  (IF v.type = "none" THEN <<>>
            ELSE IF v.type = "list"
            THEN <<KV(items[i].key, PyStr(Join(v.items, 1)))>>
            ELSE <<items[i]>>)
           \o BuildItems(items, i + 1)

\* ParamBuilder.build(): the outcome of the call
build(param_dict) ==
  IF param_dict.type = "none"
  THEN Raised("AttributeError", "'NoneType' object has no attribute 'items'", "")
  ELSE Returned(PyDict(BuildItems(param_dict.items, 1)))

\* query parameter names and values the builders are fed with
ParamKeys == { "tags", "page", "search" }

ParamValues ==
  { PyNone, PyStr("chicken"), PyInt(20), PyList(<<>>),
    PyList(<<PyStr("quick-meal"), PyStr("Dinner")>>) }

\* the mappings of at most n entries over them (a dict holds a key once)
ParamDicts(n) ==
  { PyDict(items) :
      items \in { s \in UNION { [1..m -> { KV(k, v) : k \in ParamKeys,
                                                       v \in ParamValues }] :
                                 m \in 0..n } :
                    \A i, j \in 1..Len(s) : i # j => s[i].key # s[j].key } }

\* what ParamBuilder(...) is constructed with: nothing, or a mapping
BuilderSeeds == { PyNone } \cup ParamDicts(1)

AddKeys == { "tags", "page" }

AddValues == { PyNone, PyList(<<PyStr("quick-meal"), PyStr("Dinner")>>) }

\* no builder yet; afterwards: the builder's mapping, whether build() has been
\* called on it, the calls made, and the last call with its arguments and
\* outcome
NoBuilder ==
  [state |-> "absent", param_dict |-> PyNone, built |-> FALSE, calls |-> 0,
   op |-> "", key |-> "", value |-> PyNone, last |-> Returned(PyNone)]

\* ParamBuilder(param_dict)
BuilderInit(param_dict) ==
  /\ builder.state = "absent"
  /\ builder' = [NoBuilder EXCEPT !.state = "live", !.param_dict = param_dict,
                                  !.op = "__init__"]
  /\ UNCHANGED <<session, received, frames, prev>>

\* builder.add(key, value)
BuilderAdd(key, value) ==
  /\ builder.state = "live"
  /\ builder.calls < MaxCalls
  /\ LET r == add(builder.param_dict, key, value)
     IN  builder' = [builder EXCEPT !.param_dict = r.param_dict,
                                    !.calls = @ + 1, !.op = "add",
                                    !.key = key, !.value = value,
                                    !.last = r.outcome]
  /\ UNCHANGED <<session, received, frames, prev>>

\* builder.build()
BuilderBuild ==
  /\ builder.state = "live"
  /\ builder.calls < MaxCalls
  /\ builder' = [builder EXCEPT !.built = TRUE, !.calls = @ + 1,
                                !.op = "build", !.key = "", !.value = PyNone,
                                !.last = build(builder.param_dict)]
  /\ UNCHANGED <<session, received, frames, prev>>

\* format_api_params(params) called with a mapping
FormatApiParams(params) ==
  /\ builder.state = "absent"
  /\ builder' = [NoBuilder EXCEPT !.state = "called", !.param_dict = params,
                                  !.op = "format_api_params",
                                  !.last = Returned(format_api_params(params))]
  /\ UNCHANGED <<session, received, frames, prev>>

---------------------------------------------------------------------------
(* mealie/food.py, shopping_list.py, mealplan.py: the list-returning
   operations, and update_shopping_list_item *)

MixinOps ==
  { "get_foods", "get_shopping_lists", "get_all_shopping_list_items",
    "get_all_mealplans", "get_mealplan_rules", "update_shopping_list_item" }

\* the parameters of each of them, after self
MixinSignature(op) ==
  CASE op = "get_foods" ->
         << Optional("search", PyNone), Optional("order_by", PyNone),
            Optional("order_by_null_position", PyNone),
            Optional("order_direction", PyStr("desc")),
            Optional("query_filter", PyNone), Optional("pagination_seed", PyNone),
            Optional("page", PyNone), Optional("per_page", PyNone) >>
    [] op = "get_shopping_lists" ->
         << Optional("page", PyNone), Optional("per_page", PyNone),
            Optional("pagination_seed", PyNone) >>
    [] op = "get_all_shopping_list_items" ->
         << Optional("list_id", PyNone), Optional("page", PyNone),
            Optional("per_page", PyNone), Optional("pagination_seed", PyNone),
            Optional("order_by", PyNone), Optional("order_direction", PyNone),
            Optional("query_filter", PyNone) >>
    [] op = "get_all_mealplans" ->
         << Optional("start_date", PyNone), Optional("end_date", PyNone),
            Optional("page", PyNone), Optional("per_page", PyNone) >>
    [] op = "get_mealplan_rules" ->
         << Optional("page", PyNone), Optional("per_page", PyNone) >>
    [] op = "update_shopping_list_item" ->
         << Required("item_id"), Optional("item_name", PyNone),
            Optional("quantity", PyNone), Optional("unit", PyNone),
            Optional("note", PyNone), Optional("checked", PyNone),
            Optional("position", PyNone) >>

\* params = ParamBuilder(); "if x is not None: params.add(key, x)" for each
\* entry of pairs from the i-th on; params.build(): the outcome of the first
\* call that raises, or of build()
RECURSIVE AddSupplied(_, _, _)
AddSupplied(param_dict, pairs, i) ==
  IF i > Len(pairs) THEN build(param_dict)
  ELSE IF pairs[i].val.type = "none" THEN AddSupplied(param_dict, pairs, i + 1)
  ELSE LET a == add(param_dict, pairs[i].key, pairs[i].val)
       IN  IF a.outcome.kind = "raise" THEN a.outcome
           ELSE AddSupplied(a.param_dict, pairs, i + 1)

\* the body of each operation, up to its call of _handle_request
MixinCall(op, kw) ==
  LET A(name) == ArgOf(MixinSignature(op), kw, name) IN
  CASE op = "get_foods" ->
         Send(Request("GET", "/api/foods",
                Some(format_api_params(PyDict(
                  <<KV("search", A("search")),
                    KV("orderBy", A("order_by")),
                    KV("orderByNullPosition", A("order_by_null_position")),
                    KV("orderDirection", A("order_direction")),
                    KV("queryFilter", A("query_filter")),
                    KV("paginationSeed", A("pagination_seed")),
                    KV("page", A("page")),
                    KV("perPage", A("per_page"))>>))),
                None))
    [] op = "get_shopping_lists" ->
         LET params == build(PyDict(<<KV("page", A("page")),
                                      KV("perPage", A("per_page")),
                                      KV("paginationSeed", A("pagination_seed"))>>))
         IN  Send(Request("GET", "/api/households/shopping/lists",
                          Some(params.value), None))
    [] op = "get_all_shopping_list_items" ->
         LET params == build(PyDict(<<KV("shoppingListId", A("list_id")),
                                      KV("page", A("page")),
                                      KV("perPage", A("per_page")),
                                      KV("paginationSeed", A("pagination_seed")),
                                      KV("orderBy", A("order_by")),
                                      KV("orderDirection", A("order_direction")),
                                      KV("queryFilter", A("query_filter"))>>))
         IN  Send(Request("GET", "/api/shopping/items", Some(params.value), None))
    [] op = "get_all_mealplans" ->
         LET params == AddSupplied(PyNone,
                         <<KV("start_date", A("start_date")),
                           KV("end_date", A("end_date")),
                           KV("page", A("page")),
                           KV("per_page", A("per_page"))>>, 1)
         IN  IF params.kind = "raise" THEN Finish(params)
             ELSE Send(Request("GET", "/api/households/mealplans",
                               Some(params.value), None))
    [] op = "get_mealplan_rules" ->
         LET params == AddSupplied(PyNone,
                         <<KV("page", A("page")),
                           KV("per_page", A("per_page"))>>, 1)
         IN  IF params.kind = "raise" THEN Finish(params)
             ELSE Send(Request("GET", "/api/households/mealplans/rules",
                               Some(params.value), None))
    [] op = "update_shopping_list_item" ->
         IF ~Truthy(A("item_id"))
         THEN Finish(ValueError("Shopping list item ID cannot be empty"))
         ELSE IF \A name \in { "item_name", "quantity", "unit", "note",
                               "checked", "position" } : A(name).type = "none"
         THEN Finish(ValueError(
                "At least one parameter must be provided to update"))
         ELSE Send(Request("PUT",
                "/api/shopping/items/" \o PyToStr(A("item_id")), None,
                Some(PyDict(
                  WithOptional(WithOptional(WithOptional(WithOptional(
                  WithOptional(WithOptional(
                    <<KV("id", A("item_id"))>>,
                    "display", A("item_name")),
                    "quantity", A("quantity")),
                    "unit", A("unit")),
                    "note", A("note")),
                    "checked", A("checked")),
                    "position", A("position"))))))

\* the arguments the model calls them with
MixinArgs(op) ==
  CASE op = "get_foods" ->
         Kwargs(<<Choice("search", {PyStr("flour")}, TRUE),
                  Choice("order_direction", {PyStr("asc")}, TRUE),
                  Choice("per_page", {PyInt(20)}, TRUE)>>)
    [] op = "get_shopping_lists" ->
         Kwargs(<<Choice("page", {PyInt(1)}, TRUE),
                  Choice("per_page", {PyInt(20)}, TRUE)>>)
    [] op = "get_all_shopping_list_items" ->
         Kwargs(<<Choice("list_id", {PyStr("abc")}, TRUE),
                  Choice("order_direction", {PyStr("asc")}, TRUE)>>)
    [] op = "get_all_mealplans" ->
         Kwargs(<<Choice("start_date", {PyStr("2024-01-01")}, TRUE),
                  Choice("page", {PyNone, PyInt(1)}, TRUE)>>)
    [] op = "get_mealplan_rules" ->
         Kwargs(<<Choice("page", {PyInt(1)}, TRUE),
                  Choice("per_page", {PyInt(20)}, TRUE)>>)
    [] op = "update_shopping_list_item" ->
         Kwargs(<<Choice("item_id", IdArgs, FALSE),
                  Choice("item_name", {PyStr("Milk")}, TRUE),
                  Choice("quantity", {PyNone, PyInt(0)}, TRUE),
                  Choice("note", {PyStr("")}, TRUE),
                  Choice("checked", {PyBool(FALSE)}, TRUE)>>)

\* one of these operations called directly on the client
InvokeMixin(t, op, kw) == Begin(t, "client", op, kw, MixinCall(op, kw))

---------------------------------------------------------------------------
(* Specification *)

Init ==
  /\ session = NoSession
  /\ received = 0
  /\ frames = [t \in Tasks |-> IdleFrame]
  /\ prev = None
  /\ builder = NoBuilder

Next ==
  \/ /\ session.state = "absent"
     /\ \E u \in BaseUrls, k \in ApiKeys, a \in ProbeAnswers : Construct(u, k, a)
  \/ \E t \in MainTasks :
       /\ CanBegin(t)
       /\ \E m \in DispatchMethods, u \in DispatchUrls : InvokeDispatch(t, m, u)
  \/ \E t \in MainTasks :
       /\ CanBegin(t)
       /\ \E op \in ClientOps : \E kw \in ClientArgs(op) : InvokeClient(t, op, kw)
  \/ \E t \in MainTasks :
       /\ CanBegin(t)
       /\ \E tool \in RegisteredTools :
            \E kw \in ToolArgs(tool) : InvokeTool(t, tool, kw)
  \/ \E t \in MainTasks :
       /\ frames[t].pc = "waiting"
       /\ \E a \in Answers : Answer(t, a)
  \/ \E t \in MainTasks : Return(t)

Spec == Init /\ [][Next]_vars

\* the parameter builders on their own
BuilderNext ==
  \/ \E d \in BuilderSeeds : BuilderInit(d)
  \/ \E k \in AddKeys, v \in AddValues : BuilderAdd(k, v)
  \/ BuilderBuild
  \/ \E d \in ParamDicts(MaxParams) : FormatApiParams(d)

BuilderSpec == Init /\ [][BuilderNext]_vars

\* the client constructed, then imports of recipes from URLs
ImportNext ==
  \/ /\ session.state = "absent"
     /\ \E u \in BaseUrls, k \in ApiKeys, a \in ProbeAnswers : Construct(u, k, a)
  \/ \E t \in MainTasks :
       /\ CanBegin(t)
       /\ \E level \in { "import", "import_tool" }, url \in ImportUrls :
            InvokeImport(t, level, url)
  \/ \E t \in MainTasks :
       /\ frames[t].pc = "waiting"
       /\ \E a \in Answers : Answer(t, a)
  \/ \E t \in MainTasks : Return(t)

ImportSpec == Init /\ [][ImportNext]_vars

\* the client constructed, then bulk operations on shopping-list items
BulkNext ==
  \/ /\ session.state = "absent"
     /\ \E u \in BaseUrls, k \in ApiKeys, a \in ProbeAnswers : Construct(u, k, a)
  \/ \E t \in MainTasks :
       /\ CanBegin(t)
       /\ \E op \in BulkOps : \E kw \in BulkArgs(op) : InvokeBulk(t, op, kw)
  \/ \E t \in MainTasks :
       /\ frames[t].pc = "waiting"
       /\ \E a \in Answers : Answer(t, a)
  \/ \E t \in MainTasks : Return(t)

BulkSpec == Init /\ [][BulkNext]_vars

\* the client constructed, then the list-returning operations and
\* update_shopping_list_item
MixinNext ==
  \/ /\ session.state = "absent"
     /\ \E u \in BaseUrls, k \in ApiKeys, a \in ProbeAnswers : Construct(u, k, a)
  \/ \E t \in MainTasks :
       /\ CanBegin(t)
       /\ \E op \in MixinOps : \E kw \in MixinArgs(op) : InvokeMixin(t, op, kw)
  \/ \E t \in MainTasks :
       /\ frames[t].pc = "waiting"
       /\ \E a \in Answers : Answer(t, a)
  \/ \E t \in MainTasks : Return(t)

MixinSpec == Init /\ [][MixinNext]_vars

\* the client constructed, then calls made concurrently on it by every task
ConcurrentNext ==
  \/ /\ session.state = "absent"
     /\ \E u \in BaseUrls, k \in ApiKeys, a \in ProbeAnswers : Construct(u, k, a)
  \/ \E t \in Tasks :
       /\ CanBegin(t)
       /\ \E m \in DispatchMethods, u \in DispatchUrls : InvokeDispatch(t, m, u)
  \/ \E t \in Tasks :
       /\ CanBegin(t)
       /\ \E kw \in MixinArgs("get_shopping_lists") :
            InvokeMixin(t, "get_shopping_lists", kw)
  \/ \E t \in Tasks :
       /\ frames[t].pc = "waiting"
       /\ \E a \in Answers : Answer(t, a)
  \/ \E t \in Tasks : Return(t)

ConcurrentSpec == Init /\ [][ConcurrentNext]_vars

---------------------------------------------------------------------------
(* Reading a finished call *)

\* the frame of task t has ended at the given level
Done(t, level) == frames[t].pc = "done" /\ frames[t].level = level

\* the request and the transport's answer of a call's last _handle_request
LastRequest(f) == f.reqs[Len(f.reqs)]

LastAnswer(f) == f.answers[Len(f.answers)]

Answered(f) == Len(f.answers) > 0

\* a response with a status outside 2xx
ErrorResponse(a) == a.kind = "response" /\ ~IsSuccess(a.status)

\* json.loads of a tool's return value as the Error Envelope: the text is an
\* object with exactly the fields success = false and error = a string
EnvelopeHead == "{\"success\": false, \"error\": \""

EnvelopeTail == "\"}"

EnvelopeError(text) ==
  JsonUnescape(SubSeq(text, Len(EnvelopeHead) + 1, Len(text) - Len(EnvelopeTail)))

IsEnvelope(v) ==
  /\ v.type = "str"
  /\ Len(v.str) >= Len(EnvelopeHead) + Len(EnvelopeTail)
  /\ StartsWith(v.str, EnvelopeHead)
  /\ EndsWith(v.str, EnvelopeTail)
  /\ JsonDumps(PyDict(<<KV("success", PyBool(FALSE)),
                        KV("error", PyStr(EnvelopeError(v.str)))>>)) = v.str

\* a required parameter of op that the call leaves out or passes empty
EmptyRequired(op, kw) ==
  \E i \in 1..Len(Signature(op)) :
    /\ Signature(op)[i].required
    /\ \/ ~HasKey(kw, Signature(op)[i].name)
       \/ ~Truthy(GetKey(kw, Signature(op)[i].name))

---------------------------------------------------------------------------
(* Claims *)

\* C1: a domain operation called with a required identifier, name or data
\* argument missing or empty raises an argument error, and has handed no
\* request to the transport when it does.
C1_EmptyRequiredRaisesBeforeDispatch ==
  \A t \in Tasks :
    (frames[t].level = "client" /\ frames[t].pc # "idle"
       /\ EmptyRequired(frames[t].op, frames[t].kw))
      => /\ frames[t].pc = "done"
         /\ frames[t].reqs = <<>>
         /\ frames[t].result.kind = "raise"
         /\ frames[t].result.exc \in { "ValueError", "TypeError" }

\* C2: on a non-2xx answer _handle_request raises MealieApiError with the
\* status code, the raw body, and the message "API error for {method}
\* {path}: {detail}", detail being the body's detail field or else the raw
\* text.
C2_ApiErrorCarriesDetailField ==
  \A t \in Tasks :
    (Done(t, "dispatch") /\ ErrorResponse(LastAnswer(frames[t])))
      => LET f == frames[t]
             a == LastAnswer(f)
             detail ==
               IF IsJson(a.text) /\ HasKey(ResponseJson(a.text), "detail")
               THEN PyToStr(GetKey(ResponseJson(a.text), "detail"))
               ELSE a.text
         IN  /\ f.result.kind = "raise"
             /\ f.result.exc = "MealieApiError"
             /\ f.result.status = Some(a.status)
             /\ f.result.response_text = Some(a.text)
             /\ f.result.message =
                  "API error for " \o LastRequest(f).method \o " "
                    \o LastRequest(f).url \o ": " \o detail

\* C3: on every 2xx answer _handle_request returns and does not raise: the
\* decoded document when the body is JSON (its serialisation is the body),
\* the raw text otherwise.
C3_SuccessReturnsJsonOrText ==
  \A t \in Tasks :
    (frames[t].pc = "done" /\ frames[t].level \in { "dispatch", "client" }
       /\ Answered(frames[t])
       /\ LastAnswer(frames[t]).kind = "response"
       /\ IsSuccess(LastAnswer(frames[t]).status))
      => LET r    == frames[t].result
             text == LastAnswer(frames[t]).text
         IN  /\ r.kind = "return"
             /\ IsJson(text) => JsonDumps(r.value) = text
             /\ ~IsJson(text) => r.value = PyStr(text)

\* C3 witness: a direct dispatch answered 201 with a bare slug that is not
\* JSON has returned that text.
C3_Witness ==
  \E t \in Tasks :
    /\ Done(t, "dispatch")
    /\ LastAnswer(frames[t]).status = 201
    /\ LastAnswer(frames[t]).text = "new-recipe"
    /\ frames[t].result.kind = "return"
    /\ frames[t].result.value = PyStr("new-recipe")

\* C4: whenever the request times out, in whichever phase (connect, write,
\* read, pool), _handle_request raises TimeoutError with a message only.
C4_EveryTimeoutIsTimeoutError ==
  \A t \in Tasks :
    (Done(t, "dispatch") /\ LastAnswer(frames[t]).kind = "failure"
       /\ LastAnswer(frames[t]).failure \in TimeoutFailures)
      => /\ frames[t].result.kind = "raise"
         /\ frames[t].result.exc = "TimeoutError"
         /\ frames[t].result.status = None
         /\ frames[t].result.response_text = None

\* C5: whenever the request fails at connection level (DNS, refused,
\* reset), _handle_request raises ConnectionError wrapping the cause.
C5_ConnectionFailureIsConnectionError ==
  \A t \in Tasks :
    (Done(t, "dispatch") /\ LastAnswer(frames[t]).kind = "failure"
       /\ LastAnswer(frames[t]).failure \in ConnectionFailures)
      => /\ frames[t].result.kind = "raise"
         /\ frames[t].result.exc = "ConnectionError"
         /\ frames[t].result.cause = HttpxException(LastAnswer(frames[t]).failure)

\* C6: every entry into _handle_request hands exactly one request to the
\* transport, whatever the answer: nothing is sent again when the answer
\* comes, and a call equal to the previous one is sent like any other.
C6_OneRequestPerDispatch ==
  [][\A t \in Tasks :
       /\ Len(frames'[t].reqs) = frames'[t].step
       /\ frames'[t].pc # "idle"
            => received' - received = frames'[t].step - frames[t].step
       /\ (frames[t].pc = "idle" /\ frames'[t].level = "dispatch")
            => /\ frames'[t].pc = "waiting"
               /\ received' = received + 1]_vars

\* C6 witness: a direct dispatch that repeats the previous call has failed
\* (timeout); the transport has been handed the probe and the two requests.
C6_Witness ==
  \E t \in Tasks :
    /\ Done(t, "dispatch")
    /\ prev = Some(frames[t].reqs[1])
    /\ LastAnswer(frames[t]).failure = "timeout_read"
    /\ frames[t].result.exc = "TimeoutError"
    /\ Len(frames[t].reqs) = 1
    /\ received = 3

\* the call failed inside the tool: before any request, or in its last
\* dispatch
FailedInside(f) ==
  \/ f.reqs = <<>>
  \/ /\ Answered(f)
     /\ HandleRequest(LastRequest(f).method, LastRequest(f).url,
                      LastAnswer(f)).kind = "raise"

\* C7: a registered tool always returns: no exception leaves it, and a
\* failure inside it comes back as a JSON text that decodes to the Error
\* Envelope {success: false, error: message}.
C7_ToolsReturnEnvelope ==
  \A t \in Tasks :
    Done(t, "tool")
      => /\ frames[t].result.kind = "return"
         /\ FailedInside(frames[t]) => IsEnvelope(frames[t].result.value)

\* C7 witness: a tool whose request ran into a connect timeout (which
\* _handle_request re-raises as the httpx exception) has returned an
\* envelope.
C7_Witness ==
  \E t \in Tasks :
    /\ Done(t, "tool")
    /\ Answered(frames[t])
    /\ LastAnswer(frames[t]).failure = "timeout_connect"
    /\ IsEnvelope(frames[t].result.value)
    /\ Contains(EnvelopeError(frames[t].result.value.str), "timed out")

\* C8: when the backend answers a tool's request with a non-2xx status, the
\* tool returns an Error Envelope whose error text contains the status code.
C8_EnvelopeNamesStatus ==
  \A t \in Tasks :
    (Done(t, "tool") /\ Answered(frames[t])
       /\ ErrorResponse(LastAnswer(frames[t])))
      => /\ frames[t].result.kind = "return"
         /\ IsEnvelope(frames[t].result.value)
         /\ Contains(EnvelopeError(frames[t].result.value.str),
                     ToString(LastAnswer(frames[t]).status))

\* C8 witness: get_recipe of a slug the backend answers 404 for.
C8_Witness ==
  \E t \in Tasks :
    /\ Done(t, "tool")
    /\ frames[t].op = "get_recipe"
    /\ Answered(frames[t])
    /\ LastAnswer(frames[t]).status = 404
    /\ Contains(EnvelopeError(frames[t].result.value.str), "404")

\* C9: construction with an empty base URL or API key fails with a
\* ValueError before the connection is created and before any request.
C9_EmptyConfigFailsBeforeNetwork ==
  (session.state # "absent" /\ (session.base_url = "" \/ session.api_key = ""))
    => /\ session.state = "failed"
       /\ session.error.kind = "raise"
       /\ session.error.exc = "ValueError"
       /\ ~session.conn
       /\ session.probes = <<>>
       /\ received = 0

\* C9 witness: construction with a base URL and an empty key has failed.
C9_Witness ==
  /\ session.state = "failed"
  /\ session.base_url # ""
  /\ session.api_key = ""
  /\ session.error.str = "API key cannot be empty"

C11_RejectedCredentialFailsConstruction ==
  (session.state # "absent" /\ session.answer.kind = "response"
     /\ session.answer.status \in { 401, 403 })
    => session.state = "failed"

\* C12: build() and format_api_params return, for every input mapping, a
\* mapping whose keys are exactly the input keys with a non-None value, each
\* once; a list value has become its elements joined with "," in order (the
\* empty list the empty string, its key kept), any other value is unchanged.
C12_BuildElidesNoneJoinsLists ==
  (builder.op \in { "build", "format_api_params" }
     /\ builder.param_dict.type = "dict")
    => LET in  == builder.param_dict.items
           out == builder.last.value.items
           Joined(l) ==
             CASE Len(l) = 0 -> ""
               [] Len(l) = 1 -> l[1].str
               [] Len(l) = 2 -> l[1].str \o "," \o l[2].str
       IN  /\ builder.last.kind = "return"
           /\ builder.last.value.type = "dict"
           /\ \A i, j \in 1..Len(out) : i # j => out[i].key # out[j].key
           /\ \A i \in 1..Len(out) :
                \E j \in 1..Len(in) :
                  in[j].key = out[i].key /\ in[j].val.type # "none"
           /\ \A j \in 1..Len(in) :
                in[j].val.type # "none"
                  => \E i \in 1..Len(out) :
                       /\ out[i].key = in[j].key
                       /\ out[i].val =
                            IF in[j].val.type = "list"
                            THEN PyStr(Joined(in[j].val.items))
                            ELSE in[j].val

\* C12 witness: a builder holding tags = [quick-meal, Dinner] and page = None
\* has been built into exactly {tags: "quick-meal,Dinner"}.
C12_Witness ==
  /\ builder.op = "build"
  /\ builder.param_dict =
       PyDict(<<KV("tags", PyList(<<PyStr("quick-meal"), PyStr("Dinner")>>)),
                KV("page", PyNone)>>)
  /\ builder.last.value = PyDict(<<KV("tags", PyStr("quick-meal,Dinner"))>>)

\* C13: add() with a key the builder's mapping already holds raises and
\* leaves the mapping, the value under that key included, as it was.
C13_DuplicateAddRaises ==
  [][(builder'.op = "add" /\ builder'.calls = builder.calls + 1
        /\ builder.param_dict.type = "dict"
        /\ HasKey(builder.param_dict, builder'.key))
       => /\ builder'.last.kind = "raise"
          /\ builder'.param_dict = builder.param_dict]_vars

\* C13 witness: add("tags", None) on a builder holding a list under tags has
\* raised ValueError and the list is still there.
C13_Witness ==
  /\ builder.op = "add"
  /\ builder.key = "tags"
  /\ builder.value = PyNone
  /\ builder.last.exc = "ValueError"
  /\ builder.param_dict.type = "dict"
  /\ HasKey(builder.param_dict, "tags")
  /\ GetKey(builder.param_dict, "tags").type = "list"

\* C14: an add() made after build() has been called on the builder raises.
C14_AddAfterBuildRaises ==
  (builder.op = "add" /\ builder.built) => builder.last.kind = "raise"

\* C15: get_recipes issues exactly one request, GET /api/recipes with no
\* body, whose query parameters are exactly the arguments supplied with a
\* value other than None, under their camelCase keys (a list as its
\* comma-join), plus orderDirection = "desc" when no direction is supplied.
C15_GetRecipesParams ==
  \A t \in Tasks :
    (frames[t].op = "get_recipes" /\ frames[t].pc # "idle")
      => LET f == frames[t]
             kw == f.kw.items
             p == f.reqs[1].params[1].items
             Camel(k) ==
               CASE k = "per_page"        -> "perPage"
                 [] k = "order_direction" -> "orderDirection"
                 [] k = "order_by"        -> "orderBy"
                 [] OTHER                 -> k
             Sent(v) ==
               IF v.type # "list" THEN v
               ELSE PyStr(CASE Len(v.items) = 0 -> ""
                            [] Len(v.items) = 2 ->
                                 v.items[1].str \o "," \o v.items[2].str)
             supplied ==
               { <<Camel(kw[i].key), Sent(kw[i].val)>> :
                   i \in { j \in 1..Len(kw) : kw[j].val.type # "none" } }
             default ==
               IF HasKey(f.kw, "order_direction") THEN {}
               ELSE { <<"orderDirection", PyStr("desc")>> }
         IN  /\ Len(f.reqs) = 1
             /\ f.reqs[1].method = "GET"
             /\ f.reqs[1].url = "/api/recipes"
             /\ f.reqs[1].json = None
             /\ f.reqs[1].params # None
             /\ { <<p[i].key, p[i].val>> : i \in 1..Len(p) }
                  = supplied \cup default
             /\ Cardinality({ p[i].key : i \in 1..Len(p) }) = Len(p)

\* C15 witness: the get_recipes tool called with search = "chicken" and
\* per_page = 20 waits on GET /api/recipes with exactly orderDirection, search
\* and perPage.
C15_Witness ==
  \E t \in Tasks :
    /\ frames[t].level = "tool"
    /\ frames[t].op = "get_recipes"
    /\ frames[t].pc = "waiting"
    /\ frames[t].kw = PyDict(<<KV("search", PyStr("chicken")),
                               KV("per_page", PyInt(20))>>)
    /\ LET p == frames[t].reqs[1].params[1]
       IN  /\ Len(p.items) = 3
           /\ GetKey(p, "orderDirection") = PyStr("desc")
           /\ GetKey(p, "search") = PyStr("chicken")
           /\ GetKey(p, "perPage") = PyInt(20)

C17_ImportPostThenGet ==
  \A t \in Tasks :
    LET f == frames[t]
        url == GetKey(f.kw, "url")
        post == HandleRequest("POST", "/api/recipes/create/url", f.answers[1])
    IN  (f.level = "import" /\ f.pc # "idle" /\ f.reqs # <<>>)
          => /\ f.reqs[1] = Request("POST", "/api/recipes/create/url", None,
                                    Some(PyDict(<<KV("url", url)>>)))
             /\ Len(f.answers) = 0 => Len(f.reqs) = 1
             /\ (Len(f.answers) >= 1 /\ post.kind = "raise")
                  => /\ f.pc = "done"
                     /\ Len(f.reqs) = 1
                     /\ f.result = post
             /\ (Len(f.answers) >= 1 /\ post.kind = "return")
                  => /\ Len(f.reqs) = 2
                     /\ f.reqs[2] = Request("GET",
                          "/api/recipes/" \o PyToStr(post.value), None, None)
                     /\ f.pc = "done"
                          => /\ Len(f.answers) = 2
                             /\ f.result = HandleRequest("GET", f.reqs[2].url,
                                                         f.answers[2])

\* C17 witness: the POST was answered 500; the call has ended with the
\* MealieApiError after that one request.
C17_Witness ==
  \E t \in Tasks :
    /\ frames[t].level = "import"
    /\ frames[t].pc = "done"
    /\ Len(frames[t].answers) = 1
    /\ frames[t].answers[1].status = 500
    /\ frames[t].result.exc = "MealieApiError"
    /\ Len(frames[t].reqs) = 1

\* C18: a bulk operation whose list argument is no list or empty, or holds
\* an element without a non-empty display (bulk create) or id (bulk update),
\* raises with no request dispatched; otherwise (the list id of bulk create
\* given) exactly one request is dispatched and it carries every element.
C18_BulkAllOrNothing ==
  \A t \in Tasks :
    LET f == frames[t]
        op == f.op
        items == GetKey(f.kw, IF op = "bulk_delete_shopping_list_items"
                              THEN "item_ids" ELSE "items")
        field == IF op = "bulk_create_shopping_list_items" THEN "display" ELSE "id"
        lacks(e) == ~HasKey(e, field) \/ GetKey(e, field) \in { PyNone, PyStr("") }
        bad ==
          \/ items.type # "list"
          \/ items.items = <<>>
          \/ /\ op # "bulk_delete_shopping_list_items"
             /\ \E i \in 1..Len(items.items) : lacks(items.items[i])
        sent == f.reqs[1].json[1].items
    IN  (op \in BulkOps /\ f.pc # "idle")
          => /\ bad => /\ f.pc = "done"
                       /\ f.reqs = <<>>
                       /\ f.result.kind = "raise"
             /\ (~bad /\ (op = "bulk_create_shopping_list_items"
                            => GetKey(f.kw, "list_id") # PyStr("")))
                  => /\ Len(f.reqs) = 1
                     /\ f.reqs[1].url = "/api/shopping/items/bulk"
                     /\ Len(sent) = Len(items.items)
                     /\ \A i \in 1..Len(sent) :
                          IF op = "bulk_create_shopping_list_items"
                          THEN /\ GetKey(sent[i], "shoppingListId")
                                    = GetKey(f.kw, "list_id")
                               /\ \A j \in 1..Len(items.items[i].items) :
                                    GetKey(sent[i], items.items[i].items[j].key)
                                      = items.items[i].items[j].val
                          ELSE sent[i] = items.items[i]

\* C18 witness: bulk create of [Milk, an item with an empty display] has
\* raised and the transport has been handed the probe only.
C18_Witness ==
  \E t \in Tasks :
    /\ frames[t].op = "bulk_create_shopping_list_items"
    /\ frames[t].pc = "done"
    /\ GetKey(frames[t].kw, "items") =
         PyList(<<PyDict(<<KV("display", PyStr("Milk"))>>),
                  PyDict(<<KV("display", PyStr(""))>>)>>)
    /\ frames[t].result.exc = "ValueError"
    /\ frames[t].reqs = <<>>
    /\ received = 1

\* C19: the JSON body the update_recipe and create_recipe tools send with
\* their PUT holds no top-level key that the caller's recipe_data omitted.
C19_BodyHoldsSuppliedKeysOnly ==
  \A t \in Tasks :
    LET f == frames[t] IN
    (f.level = "tool" /\ f.op \in { "update_recipe", "create_recipe" })
      => \A n \in 1..Len(f.reqs) :
           f.reqs[n].method = "PUT"
             => \A j \in 1..Len(f.reqs[n].json[1].items) :
                  HasKey(ToolArg(f.op, f.kw, "recipe_data"),
                         f.reqs[n].json[1].items[j].key)

\* C20: the update_recipe tool called with a slug and a recipe_data holding
\* some non-empty subset of the recipe fields dispatches one
\* PUT /api/recipes/{slug}.
C20_PartialUpdateDispatchesPut ==
  \A t \in Tasks :
    LET f == frames[t]
        slug == ToolArg(f.op, f.kw, "slug")
        recipe_data == ToolArg(f.op, f.kw, "recipe_data")
    IN  ( /\ f.level = "tool" /\ f.op = "update_recipe" /\ f.pc # "idle"
          /\ slug # PyStr("")
          /\ recipe_data.items # <<>>
          /\ \A j \in 1..Len(recipe_data.items) :
               Declared("RecipeData", recipe_data.items[j].key) )
          => /\ Len(f.reqs) = 1
             /\ f.reqs[1].method = "PUT"
             /\ f.reqs[1].url = "/api/recipes/" \o slug.str

\* C21: a list-returning operation called without an order direction sends
\* orderDirection = "desc" in the query parameters of its GET.
C21_ListsDefaultToDesc ==
  \A t \in Tasks :
    LET f == frames[t] IN
    ( /\ f.level = "client" /\ f.pc # "idle"
      /\ f.op \in { "get_foods", "get_shopping_lists",
                    "get_all_shopping_list_items", "get_all_mealplans",
                    "get_mealplan_rules" }
      /\ ~HasKey(f.kw, "order_direction") )
      => /\ Len(f.reqs) >= 1
         /\ f.reqs[1].params # None
         /\ HasKey(f.reqs[1].params[1], "orderDirection")
         /\ GetKey(f.reqs[1].params[1], "orderDirection") = PyStr("desc")

\* C26: get_all_mealplans and get_mealplan_rules, whatever arguments are
\* supplied, dispatch one GET whose query parameters are exactly the
\* arguments that are not None.
C26_MealplanListsDispatchOneGet ==
  \A t \in Tasks :
    LET f == frames[t] IN
    ( /\ f.level = "client" /\ f.pc # "idle"
      /\ f.op \in { "get_all_mealplans", "get_mealplan_rules" } )
      => /\ Len(f.reqs) = 1
         /\ f.reqs[1].method = "GET"
         /\ f.reqs[1].url = (IF f.op = "get_all_mealplans"
                             THEN "/api/households/mealplans"
                             ELSE "/api/households/mealplans/rules")
         /\ \A name \in { "start_date", "end_date", "page", "per_page" } :
              HasKey(f.reqs[1].params[1], name)
                <=> (HasKey(f.kw, name) /\ GetKey(f.kw, name) # PyNone)

\* C30: update_shopping_list_item with a non-empty item_id raises with no
\* request exactly when all six optional arguments are None; otherwise it
\* dispatches one PUT /api/shopping/items/{item_id} whose body is the id
\* plus exactly the arguments that are not None, falsy ones included.
C30_UpdateItemSendsSuppliedKeys ==
  \A t \in Tasks :
    LET f == frames[t]
        names == << <<"item_name", "display">>, <<"quantity", "quantity">>,
                    <<"unit", "unit">>, <<"note", "note">>,
                    <<"checked", "checked">>, <<"position", "position">> >>
        given(i) == HasKey(f.kw, names[i][1]) /\ GetKey(f.kw, names[i][1]) # PyNone
        body == f.reqs[1].json[1]
    IN  ( /\ f.op = "update_shopping_list_item" /\ f.pc # "idle"
          /\ GetKey(f.kw, "item_id") # PyStr("") )
          => IF \A i \in 1..6 : ~given(i)
             THEN f.pc = "done" /\ f.reqs = <<>> /\ f.result.kind = "raise"
             ELSE /\ Len(f.reqs) = 1
                  /\ f.reqs[1].method = "PUT"
                  /\ f.reqs[1].url = "/api/shopping/items/"
                                       \o GetKey(f.kw, "item_id").str
                  /\ GetKey(body, "id") = GetKey(f.kw, "item_id")
                  /\ Len(body.items)
                       = 1 + Cardinality({ i \in 1..6 : given(i) })
                  /\ \A i \in 1..6 :
                       given(i) => /\ HasKey(body, names[i][2])
                                   /\ GetKey(body, names[i][2])
                                        = GetKey(f.kw, names[i][1])

\* C30 witness: called with checked = False, quantity = 0 and note = "" and
\* nothing else, the PUT carries the three of them.
C30_Witness ==
  \E t \in Tasks :
    /\ frames[t].op = "update_shopping_list_item"
    /\ frames[t].pc = "done"
    /\ ~HasKey(frames[t].kw, "item_name")
    /\ Len(frames[t].reqs) = 1
    /\ frames[t].reqs[1].json[1] =
         PyDict(<<KV("id", PyStr("abc")), KV("quantity", PyInt(0)),
                  KV("note", PyStr("")), KV("checked", PyBool(FALSE))>>)

\* C22: the get_current_user and get_current_group tools dispatch one GET,
\* to /api/users/self resp. /api/groups/self, and on a 2xx answer do not
\* return an Error Envelope.
C22_CurrentUserAndGroupDispatch ==
  \A t \in Tasks :
    LET f == frames[t] IN
    ( /\ f.level = "tool" /\ f.pc # "idle"
      /\ f.op \in { "get_current_user", "get_current_group" } )
      => /\ Len(f.reqs) = 1
         /\ f.reqs[1].method = "GET"
         /\ f.reqs[1].url = (IF f.op = "get_current_user"
                             THEN "/api/users/self" ELSE "/api/groups/self")
         /\ ( /\ f.pc = "done"
              /\ f.answers[1].kind = "response"
              /\ IsSuccess(f.answers[1].status) )
              => ~IsEnvelope(f.result.value)

\* C23: once the client is constructed and register_all_tools has run, the
\* tools get_recipes, create_recipe, update_recipe, get_all_mealplans and
\* create_mealplan are among the registered tools.
C23_ToolSurfaceCoversCapabilities ==
  session.state = "ready"
    => { "get_recipes", "create_recipe", "update_recipe",
         "get_all_mealplans", "create_mealplan" } \subseteq RegisteredTools

\* C27: when the create_recipe tool returns an Error Envelope, the backend
\* has not answered the call's POST /api/recipes with success, that is, the
\* call has created no recipe.
C27_CreateRecipeAllOrNothing ==
  \A t \in Tasks :
    LET f == frames[t] IN
    ( /\ Done(t, "tool") /\ f.op = "create_recipe"
      /\ IsEnvelope(f.result.value) )
      => \A n \in 1..Len(f.answers) :
           ~ ( /\ f.reqs[n].method = "POST"
               /\ f.answers[n].kind = "response"
               /\ IsSuccess(f.answers[n].status) )

\* C28: the second request of the create_recipe tool is a PUT to
\* /api/recipes/{slug}, slug being the created recipe's slug: the create
\* response itself when it is a string, its slug field when it is an object.
C28_FollowUpTargetsCreatedSlug ==
  \A t \in Tasks :
    LET f == frames[t]
        created == HandleRequest("POST", "/api/recipes", f.answers[1]).value
        slug == IF created.type = "dict" /\ HasKey(created, "slug")
                THEN GetKey(created, "slug") ELSE created
    IN  ( /\ f.level = "tool" /\ f.op = "create_recipe"
          /\ Len(f.reqs) >= 2 )
          => /\ f.answers[1].kind = "response"
             /\ IsSuccess(f.answers[1].status)
             /\ f.reqs[2].method = "PUT"
             /\ f.reqs[2].url = "/api/recipes/" \o PyToStr(slug)

\* C29: an Error Envelope of the update_recipe tool that says "Invalid
\* recipe data format" comes from a recipe_data that failed validation, with
\* no request dispatched.
C29_InvalidFormatMeansValidation ==
  \A t \in Tasks :
    LET f == frames[t] IN
    ( /\ Done(t, "tool") /\ f.op = "update_recipe"
      /\ IsEnvelope(f.result.value)
      /\ Contains(EnvelopeError(f.result.value.str),
                  "Invalid recipe data format") )
      => /\ f.reqs = <<>>
         /\ ModelErrors("RecipeData", ToolArg(f.op, f.kw, "recipe_data"), 1) > 0

\* C24: once the client is constructed, no step of any operation, whether
\* it starts, succeeds or fails, changes the session: base URL, credential,
\* the 30-second timeout and the connection object stay as constructed.
C24_SessionIsImmutable ==
  [][session.state = "ready"
       => /\ session' = session
          /\ session.timeout = RequestTimeout
          /\ session.conn]_vars

\* C24 witness: on the constructed client one call has returned and a later
\* one has ended in an exception after a transport failure, and the session
\* holds what it was constructed with.
C24_Witness ==
  /\ session.state = "ready"
  /\ session.base_url \in BaseUrls /\ session.api_key \in ApiKeys
  /\ session.timeout = RequestTimeout /\ session.conn
  /\ prev # None
  /\ \E t \in Tasks :
       /\ frames[t].pc = "done"
       /\ frames[t].result.kind = "raise"
       /\ Answered(frames[t])
       /\ LastAnswer(frames[t]).kind # "response"

\* C25: with calls in flight on several tasks, a call can start and a
\* pending request can be answered whatever the other tasks are doing, and
\* each call's requests and result are those its own arguments and the
\* answers to its own requests determine.
C25_CallsAreIndependent ==
  \A t \in Tasks :
    LET f == frames[t]
        first == IF f.level = "dispatch"
                 THEN Send(Request(GetKey(f.kw, "method").str,
                                   GetKey(f.kw, "url").str, None, None))
                 ELSE MixinCall(f.op, f.kw)
    IN  /\ ( /\ session.state = "ready" /\ f.pc = "idle"
             /\ received < MaxRequests )
             => ENABLED (\E m \in DispatchMethods, u \in DispatchUrls :
                           InvokeDispatch(t, m, u))
        /\ f.pc = "waiting" => ENABLED (\E a \in Answers : Answer(t, a))
        /\ f.pc # "idle"
             => /\ f.reqs = <<first.req>>
                /\ Len(f.answers) = (IF f.pc = "done" THEN 1 ELSE 0)
                /\ f.pc = "done"
                     => f.result = HandleRequest(first.req.method, first.req.url,
                                                 f.answers[1])

\* C25 witness: task 2 started after task 1, with other arguments, and has
\* its result while task 1 still waits for its answer.
C25_Witness ==
  /\ frames[1].pc = "waiting"
  /\ frames[2].pc = "done"
  /\ frames[2].op # frames[1].op
  /\ Answered(frames[2])
  /\ frames[2].result.kind = "return"

====
